---- MODULE Spec2Model ----
(***************************************************************************)
(* Firmware upload tooling of blinky_time:                                 *)
(*   tools/pre_upload_check.py  Intel HEX parser and memory-safety checks  *)
(*   tools/uf2_upload.py        upload orchestrator (validate, convert,    *)
(*                              bootloader entry, mount, copy, verify)     *)
(*                                                                         *)
(* Three specifications share the variables:                               *)
(*   SpecValidate  validate_safety applied to a parsed-image dictionary    *)
(*   SpecParse     parse_intel_hex applied to the text of an image file    *)
(*   Spec          main() of uf2_upload.py                                 *)
(***************************************************************************)
EXTENDS Integers, Sequences, FiniteSets, TLC

VARIABLES
    call,         \* SpecPhase: one device-phase function and what it observes
    returned,     \* SpecPhase: what that call returned and did, or Idle
    hex_data,     \* SpecValidate: the dictionary handed to validate_safety
    safety,       \* SpecValidate: outcome of validate_safety, or Idle
    records,      \* SpecParse: the records the image file was written from
    mutation,     \* SpecParse: the damage done to one line of the file
    hex_file,     \* SpecParse: the lines of the image file, as text
    parsed,       \* SpecParse: outcome of parse_intel_hex, or Idle
    args,         \* Spec: the command line, with what it names on disk
    env,          \* Spec: the installation (checker module, attached boards)
    pc,           \* Spec: where main() stands
    exit_status,  \* Spec: the process exit status, -1 while running
    failure,      \* Spec: the last failure banner or error printed
    ports,        \* Spec: the resolved port list
    conversion,   \* Spec: what became of convert_to_uf2
    hw,           \* Spec: the hardware actions performed so far, [port, act]
    results,      \* Spec: the (port, success, message) list
    dev,          \* Spec: progress of the device being handled
    mount_map     \* Spec: upload_parallel's per-port tracking

valVars == <<hex_data, safety>>
parseVars == <<records, mutation, hex_file, parsed>>
phaseVars == <<call, returned>>
mainVars == <<args, env, pc, exit_status, failure, ports, conversion, hw,
              results, dev, mount_map>>
vars == <<hex_data, safety, records, mutation, hex_file, parsed, args, env,
          pc, exit_status, failure, ports, conversion, hw, results, dev,
          mount_map, call, returned>>

Idle == [kind |-> "idle"]

\* ------------------------------------------------------------------------
\* Memory layout, pre_upload_check.py:27-35
\* ------------------------------------------------------------------------
FLASH_END == 1048576
BOOTLOADER_REGION_END == 159744
APPLICATION_START == 159744
CONFIG_REGION_START == 1044480
MAX_APPLICATION_SIZE == CONFIG_REGION_START - APPLICATION_START
ABSOLUTE_MIN_ADDRESS == 131072

\* ------------------------------------------------------------------------
\* Bounds of the model
\* ------------------------------------------------------------------------
\* longest block list / segment list handed to validate_safety
MaxBlocks == 2
MaxSegments == 1
\* most lines in an image file
MaxLines == 3

\* ------------------------------------------------------------------------
\* Text of a line.  A character is a hexadecimal digit 0..15, the record
\* marker ':' (COLON) or a letter that is no hexadecimal digit (NONHEX).
\* Lines are held stripped, as line.strip() leaves them.
\* ------------------------------------------------------------------------
COLON == 16
NONHEX == 17
ValueError == -1

Min2(a, b) == IF a <= b THEN a ELSE b
Max2(a, b) == IF a >= b THEN a ELSE b

\* Python's s[a:b] on 0-based bounds; a negative bound counts from the end.
PyIndex(n, i) == IF i < 0 THEN Max2(n + i, 0) ELSE Min2(i, n)
PySlice(s, a, b) == SubSeq(s, PyIndex(Len(s), a) + 1, PyIndex(Len(s), b))
PyFrom(s, a) == SubSeq(s, PyIndex(Len(s), a) + 1, Len(s))

RECURSIVE HexNum(_)
HexNum(s) == IF s = <<>> THEN 0
             ELSE HexNum(SubSeq(s, 1, Len(s) - 1)) * 16 + s[Len(s)]

\* int(s, 16): ValueError on the empty string and on any character that is
\* no hexadecimal digit.
IntHex(s) == IF s = <<>> \/ \E i \in 1..Len(s) : s[i] > 15
             THEN ValueError ELSE HexNum(s)

\* for i in range(0, len(data), 2): calc_sum += int(data[i:i+2], 16)
RECURSIVE DataSum(_)
DataSum(data) ==
    IF data = <<>> THEN 0
    ELSE LET head == IntHex(SubSeq(data, 1, Min2(2, Len(data))))
             rest == DataSum(SubSeq(data, 3, Len(data)))
         IN IF head = ValueError \/ rest = ValueError THEN ValueError
            ELSE head + rest

\* calc_sum = (~calc_sum + 1) & 0xFF
TwosComplement(sum) == (256 - (sum % 256)) % 256

CalcSum(byte_count, address, record_type, datasum) ==
    TwosComplement(byte_count + (address \div 256) + (address % 256)
                   + record_type + datasum)

\* A comparison that ignores the top bit of the two bytes.
ChecksumMismatchLow7(calc_sum, checksum) == calc_sum % 128 # checksum % 128

\* if calc_sum != checksum
ChecksumMismatch(calc_sum, checksum) == calc_sum # checksum

\* The try block of parse_intel_hex on one line that starts with ':'.
\* kind "ok" carries the fields; kind "HexValidationError" carries the
\* message class: "parse" (from a ValueError) or "checksum".
ParseRecord(line) ==
    LET byte_count == IntHex(PySlice(line, 1, 3))
        address == IntHex(PySlice(line, 3, 7))
        record_type == IntHex(PySlice(line, 7, 9))
        data == PySlice(line, 9, -2)
        checksum == IntHex(PyFrom(line, -2))
        datasum == DataSum(data)
    IN IF ValueError \in {byte_count, address, record_type, checksum, datasum}
       THEN [kind |-> "HexValidationError", msg |-> "parse"]
       ELSE IF ChecksumMismatch(
                   CalcSum(byte_count, address, record_type, datasum), checksum)
       THEN [kind |-> "HexValidationError", msg |-> "checksum"]
       ELSE [kind |-> "ok", byte_count |-> byte_count, address |-> address,
             record_type |-> record_type, data |-> data]

\* ------------------------------------------------------------------------
\* parse_intel_hex, pre_upload_check.py:45-138
\* ------------------------------------------------------------------------
\* min_addr = float('inf')
INF == -1

ParseStart ==
    [status |-> "run", line_num |-> 0, msg |-> "",
     addresses |-> <<>>, segments |-> <<>>, min_addr |-> INF, max_addr |-> 0,
     total_bytes |-> 0, extended_addr |-> 0, unknown |-> <<>>]

\* A data record that takes the end of the latest block for max_addr.
DataRecordLatestEnd(st, rec) ==
    LET physical_addr == st.extended_addr + rec.address
        end_addr == physical_addr + rec.byte_count
    IN [st EXCEPT !.addresses = Append(@, <<physical_addr, end_addr>>),
                  !.min_addr = IF @ = INF THEN physical_addr
                               ELSE Min2(@, physical_addr),
                  !.max_addr = end_addr,
                  !.total_bytes = @ + rec.byte_count]

\* if record_type == 0x00: the data record's block and the aggregates
DataRecord(st, rec) ==
    LET physical_addr == st.extended_addr + rec.address
        end_addr == physical_addr + rec.byte_count
    IN [st EXCEPT !.addresses = Append(@, <<physical_addr, end_addr>>),
                  !.min_addr = IF @ = INF THEN physical_addr
                               ELSE Min2(@, physical_addr),
                  !.max_addr = Max2(@, end_addr),
                  !.total_bytes = @ + rec.byte_count]

\* An extended-address record that adds to the accumulator instead of
\* replacing it.
ExtendedRecordAdding(st, rec, factor) ==
    LET value == IntHex(rec.data)
    IN IF value = ValueError
       THEN [st EXCEPT !.status = "ValueError"]
       ELSE [st EXCEPT !.extended_addr = @ + value * factor,
                       !.segments = Append(@, value * factor)]

\* elif record_type == 0x02 / 0x04: int(data, 16) is outside the try block,
\* so its ValueError leaves parse_intel_hex as a ValueError.
ExtendedRecord(st, rec, factor) ==
    LET value == IntHex(rec.data)
    IN IF value = ValueError
       THEN [st EXCEPT !.status = "ValueError"]
       ELSE [st EXCEPT !.extended_addr = value * factor,
                       !.segments = Append(@, value * factor)]

\* The if/elif chain on record_type.
HandleRecord(st, rec) ==
    CASE rec.record_type = 0 -> DataRecord(st, rec)
      [] rec.record_type = 1 -> [st EXCEPT !.status = "eof"]
      [] rec.record_type = 2 -> ExtendedRecord(st, rec, 16)
      [] rec.record_type = 4 -> ExtendedRecord(st, rec, 65536)
      [] rec.record_type \in {3, 5} -> st
      [] OTHER -> [st EXCEPT !.unknown = Append(@, st.line_num)]

\* if not line or not line.startswith(':'): continue
SkippedLine(line) == line = <<>> \/ line[1] # COLON

\* One iteration of "for line in f".
ParseLine(st, line) ==
    LET here == [st EXCEPT !.line_num = @ + 1]
    IN IF SkippedLine(line) THEN here
       ELSE LET rec == ParseRecord(line)
            IN IF rec.kind = "ok" THEN HandleRecord(here, rec)
               ELSE [here EXCEPT !.status = "HexValidationError",
                                 !.msg = rec.msg]

RECURSIVE ParseLoop(_, _)
ParseLoop(st, file) ==
    IF st.status # "run" \/ st.line_num >= Len(file) THEN st
    ELSE ParseLoop(ParseLine(st, file[st.line_num + 1]), file)

\* A parse_intel_hex that puts min_addr at the application start when no
\* data record was read.
parse_intel_hex_defaulting(file) ==
    LET st == ParseLoop(ParseStart, file)
    IN IF st.status \in {"HexValidationError", "ValueError"}
       THEN [kind |-> st.status, line |-> st.line_num, msg |-> st.msg]
       ELSE [kind |-> "ok",
             addresses |-> st.addresses,
             min_addr |-> IF st.min_addr = INF THEN APPLICATION_START
                          ELSE st.min_addr,
             max_addr |-> st.max_addr,
             total_bytes |-> st.total_bytes,
             segments |-> st.segments,
             unknown |-> st.unknown]

\* What parse_intel_hex gives its caller: the dictionary (kind "ok"), or the
\* exception that leaves it, with the line number its message names.
parse_intel_hex(file) ==
    LET st == ParseLoop(ParseStart, file)
    IN IF st.status \in {"HexValidationError", "ValueError"}
       THEN [kind |-> st.status, line |-> st.line_num, msg |-> st.msg]
       ELSE [kind |-> "ok",
             addresses |-> st.addresses,
             min_addr |-> IF st.min_addr = INF THEN 0 ELSE st.min_addr,
             max_addr |-> st.max_addr,
             total_bytes |-> st.total_bytes,
             segments |-> st.segments,
             unknown |-> st.unknown]

HexData(p) ==
    [addresses |-> p.addresses, min_addr |-> p.min_addr,
     max_addr |-> p.max_addr, total_bytes |-> p.total_bytes,
     segments |-> p.segments]

\* ------------------------------------------------------------------------
\* validate_safety, pre_upload_check.py:140-255
\* A finding is the tuple (check_name, passed, message); the message is
\* kept by its class: "CRITICAL", "WARNING", "OK" or "EXCEEDS".
\* ------------------------------------------------------------------------
Finding(name, passed, msg) == [name |-> name, passed |-> passed, msg |-> msg]

\* The floor test written with <= : an image starting exactly at the floor
\* is refused.
CheckMinAddressInclusive(hd) ==
    IF hd.min_addr <= ABSOLUTE_MIN_ADDRESS
    THEN [findings |-> <<Finding("BOOTLOADER PROTECTION", FALSE, "CRITICAL")>>,
          critical |-> TRUE]
    ELSE IF hd.min_addr < APPLICATION_START
    THEN [findings |-> <<Finding("BOOTLOADER PROTECTION", FALSE, "WARNING")>>,
          critical |-> FALSE]
    ELSE [findings |-> <<Finding("BOOTLOADER PROTECTION", TRUE, "OK")>>,
          critical |-> FALSE]

\* Each check gives the findings it appends and whether it sets
\* critical_failure.
CheckMinAddress(hd) ==
    IF hd.min_addr < ABSOLUTE_MIN_ADDRESS
    THEN [findings |-> <<Finding("BOOTLOADER PROTECTION", FALSE, "CRITICAL")>>,
          critical |-> TRUE]
    ELSE IF hd.min_addr < APPLICATION_START
    THEN [findings |-> <<Finding("BOOTLOADER PROTECTION", FALSE, "WARNING")>>,
          critical |-> FALSE]
    ELSE [findings |-> <<Finding("BOOTLOADER PROTECTION", TRUE, "OK")>>,
          critical |-> FALSE]

\* The config-region test written with >= : an image ending exactly at the
\* start of the config region gets a warning.
CheckMaxAddressInclusive(hd) ==
    IF hd.max_addr > FLASH_END
    THEN [findings |-> <<Finding("FLASH BOUNDS", FALSE, "CRITICAL")>>,
          critical |-> TRUE]
    ELSE IF hd.max_addr >= CONFIG_REGION_START
    THEN [findings |-> <<Finding("FLASH BOUNDS", FALSE, "WARNING")>>,
          critical |-> FALSE]
    ELSE [findings |-> <<Finding("FLASH BOUNDS", TRUE, "OK")>>,
          critical |-> FALSE]

CheckMaxAddress(hd) ==
    IF hd.max_addr > FLASH_END
    THEN [findings |-> <<Finding("FLASH BOUNDS", FALSE, "CRITICAL")>>,
          critical |-> TRUE]
    ELSE IF hd.max_addr > CONFIG_REGION_START
    THEN [findings |-> <<Finding("FLASH BOUNDS", FALSE, "WARNING")>>,
          critical |-> FALSE]
    ELSE [findings |-> <<Finding("FLASH BOUNDS", TRUE, "OK")>>,
          critical |-> FALSE]

CheckSize(hd) ==
    LET code_size == hd.max_addr - hd.min_addr
    IN IF code_size > MAX_APPLICATION_SIZE
       THEN [findings |-> <<Finding("APPLICATION SIZE", FALSE, "EXCEEDS")>>,
             critical |-> FALSE]
       ELSE [findings |-> <<Finding("APPLICATION SIZE", TRUE, "OK")>>,
             critical |-> FALSE]

\* Only the first block of the list is looked at.
BootloaderWritesFirstOnly(addresses) ==
    SelectSeq(SubSeq(addresses, 1, Min2(1, Len(addresses))),
              LAMBDA blk : blk[1] < BOOTLOADER_REGION_END)

\* for start, end in hex_data['addresses']: if start < BOOTLOADER_REGION_END
BootloaderWrites(addresses) ==
    SelectSeq(addresses, LAMBDA blk : blk[1] < BOOTLOADER_REGION_END)

CheckBootloaderRegion(hd) ==
    IF BootloaderWrites(hd.addresses) # <<>>
    THEN [findings |-> <<Finding("BOOTLOADER REGION", FALSE, "CRITICAL")>>,
          critical |-> TRUE]
    ELSE [findings |-> <<Finding("BOOTLOADER REGION", TRUE, "OK")>>,
          critical |-> FALSE]

\* A low segment address treated as a critical failure.
CheckSegmentsCritical(hd) ==
    IF hd.segments = <<>>
    THEN [findings |-> <<>>, critical |-> FALSE]
    ELSE IF \A i \in 1..Len(hd.segments) :
                hd.segments[i] >= ABSOLUTE_MIN_ADDRESS
    THEN [findings |-> <<Finding("SEGMENT ADDRESSES", TRUE, "OK")>>,
          critical |-> FALSE]
    ELSE [findings |-> <<Finding("SEGMENT ADDRESSES", FALSE, "WARNING")>>,
          critical |-> TRUE]

CheckSegments(hd) ==
    IF hd.segments = <<>>
    THEN [findings |-> <<>>, critical |-> FALSE]
    ELSE IF \A i \in 1..Len(hd.segments) :
                hd.segments[i] >= ABSOLUTE_MIN_ADDRESS
    THEN [findings |-> <<Finding("SEGMENT ADDRESSES", TRUE, "OK")>>,
          critical |-> FALSE]
    ELSE [findings |-> <<Finding("SEGMENT ADDRESSES", FALSE, "WARNING")>>,
          critical |-> FALSE]

\* if critical_failure: raise SafetyError(...); return results
\* The exception carries its fixed message only: the results list is a
\* local of validate_safety and is not handed to the caller when it raises.
Deliver(findings, critical_failure) ==
    IF critical_failure
    THEN [kind |-> "SafetyError", results |-> findings, returned |-> <<>>]
    ELSE [kind |-> "ok", results |-> findings, returned |-> findings]

\* results: the list as assembled when validate_safety is left;
\* returned: the list its caller receives.
validate_safety(hd) ==
    LET c1 == CheckMinAddress(hd)
        c2 == CheckMaxAddress(hd)
        c3 == CheckSize(hd)
        c4 == CheckBootloaderRegion(hd)
        c5 == CheckSegments(hd)
    IN Deliver(c1.findings \o c2.findings \o c3.findings \o c4.findings
                   \o c5.findings,
               c1.critical \/ c2.critical \/ c3.critical \/ c4.critical
                   \/ c5.critical)

\* ------------------------------------------------------------------------
\* Inputs of validate_safety: dictionaries as run_self_test builds them
\* (pre_upload_check.py:380-442), with the fields chosen independently of
\* one another around the boundaries of the memory layout.
\* ------------------------------------------------------------------------
SeqsUpTo(S, n) == UNION {[1..k -> S] : k \in 0..n}

BoundaryAddresses ==
    {20480, ABSOLUTE_MIN_ADDRESS - 1, ABSOLUTE_MIN_ADDRESS,
     APPLICATION_START - 1, APPLICATION_START,
     CONFIG_REGION_START, CONFIG_REGION_START + 1,
     FLASH_END, FLASH_END + 1}

SampleBlocks ==
    {<<65536, 86016>>,
     <<BOOTLOADER_REGION_END - 1, BOOTLOADER_REGION_END + 16>>,
     <<159000, 159000>>,
     <<APPLICATION_START, 196608>>,
     <<APPLICATION_START, 1114112>>}

SampleSegments == {0, ABSOLUTE_MIN_ADDRESS - 1, ABSOLUTE_MIN_ADDRESS}

HexDataInputs ==
    [addresses : SeqsUpTo(SampleBlocks, MaxBlocks),
     min_addr : BoundaryAddresses,
     max_addr : BoundaryAddresses,
     total_bytes : {0},
     segments : SeqsUpTo(SampleSegments, MaxSegments)]

NoDevice ==
    [i |-> 0, attempt |-> 0, serial |-> FALSE, hub |-> FALSE,
     commands |-> 0, entered |-> FALSE, mount |-> "none",
     volume |-> 0]

PhaseUnused ==
    /\ call = Idle
    /\ returned = Idle

MainUnused ==
    /\ args = <<>>
    /\ env = <<>>
    /\ pc = "off"
    /\ exit_status = -1
    /\ failure = ""
    /\ ports = <<>>
    /\ conversion = "not run"
    /\ hw = {}
    /\ results = <<>>
    /\ dev = NoDevice
    /\ mount_map = <<>>

ParseUnused ==
    /\ records = <<>>
    /\ mutation = [kind |-> "none", line |-> 0, arg |-> 0]
    /\ hex_file = <<>>
    /\ parsed = Idle

InitValidate ==
    /\ hex_data \in HexDataInputs
    /\ safety = Idle
    /\ ParseUnused
    /\ MainUnused
    /\ PhaseUnused

\* results = validate_safety(hex_data)
ValidateSafety ==
    /\ safety = Idle
    /\ safety' = validate_safety(hex_data)
    /\ UNCHANGED <<hex_data, parseVars, mainVars, phaseVars>>

NextValidate == ValidateSafety

SpecValidate == InitValidate /\ [][NextValidate]_vars

\* ------------------------------------------------------------------------
\* Image files.  A file is written from a list of records (or blank lines),
\* each rendered as ":BBAAAATTDD...CC"; one line may then be damaged.
\* ------------------------------------------------------------------------
Rec(bc, addr, type, data) ==
    [blank |-> FALSE, byte_count |-> bc, address |-> addr,
     record_type |-> type, data |-> data]

BlankLine ==
    [blank |-> TRUE, byte_count |-> 0, address |-> 0, record_type |-> 0,
     data |-> <<>>]

SampleRecords ==
    {Rec(1, 28672, 0, <<170>>),
     Rec(2, 16, 0, <<1, 2>>),
     Rec(0, 65535, 0, <<>>),
     Rec(0, 0, 1, <<>>),
     Rec(2, 0, 2, <<39, 0>>),
     Rec(2, 0, 4, <<0, 2>>),
     Rec(0, 0, 5, <<>>),
     Rec(0, 0, 6, <<>>),
     BlankLine}

Hex2(b) == <<b \div 16, b % 16>>

RECURSIVE HexBytes(_)
HexBytes(bytes) ==
    IF bytes = <<>> THEN <<>> ELSE Hex2(Head(bytes)) \o HexBytes(Tail(bytes))

RECURSIVE SumBytes(_)
SumBytes(bytes) ==
    IF bytes = <<>> THEN 0 ELSE Head(bytes) + SumBytes(Tail(bytes))

\* The checksum byte that makes all bytes of the record sum to 0 mod 256.
RecordChecksum(r) ==
    LET sum == r.byte_count + (r.address \div 256) + (r.address % 256)
               + r.record_type + SumBytes(r.data)
    IN (256 - (sum % 256)) % 256

RecordBody(r) ==
    <<COLON>> \o Hex2(r.byte_count) \o Hex2(r.address \div 256)
        \o Hex2(r.address % 256) \o Hex2(r.record_type) \o HexBytes(r.data)

RecordText(r, checksum) ==
    IF r.blank THEN <<>> ELSE RecordBody(r) \o Hex2(checksum)

FlipBit(byte, bit) ==
    IF (byte \div (2 ^ bit)) % 2 = 1 THEN byte - 2 ^ bit ELSE byte + 2 ^ bit

NoMutation == [kind |-> "none", line |-> 0, arg |-> 0]

\* Character positions at which a non-hexadecimal letter is put: one in
\* each of byte count, address and record type, and the last character.
NonHexPositions(r) == {2, 5, 8, Len(RecordText(r, RecordChecksum(r)))}

\* The damages one line of a file can take.
Mutations(recs) ==
    {NoMutation} \cup
    UNION {
      {[kind |-> "flip", line |-> k, arg |-> b] : b \in 0..7}
      \cup {[kind |-> "nomarker", line |-> k, arg |-> 0]}
      \cup {[kind |-> "length", line |-> k, arg |-> 0]}
      \cup {[kind |-> "nonhex", line |-> k, arg |-> pos] :
               pos \in NonHexPositions(recs[k])}
      : k \in {j \in 1..Len(recs) : ~recs[j].blank}}

MutatedText(r, m) ==
    LET good == RecordText(r, RecordChecksum(r))
    IN CASE m.kind = "flip" ->
              RecordText(r, FlipBit(RecordChecksum(r), m.arg))
         [] m.kind = "nomarker" -> Tail(good)
         [] m.kind = "length" ->
              \* the byte count declares one byte more than the payload
              \* holds; the checksum is right for the line as written
              LET d == [r EXCEPT !.byte_count = @ + 1]
              IN RecordText(d, RecordChecksum(d))
         [] m.kind = "nonhex" -> [good EXCEPT ![m.arg] = NONHEX]
         [] OTHER -> good

FileText(recs, m) ==
    [k \in 1..Len(recs) |->
        IF m.line = k THEN MutatedText(recs[k], m)
        ELSE RecordText(recs[k], RecordChecksum(recs[k]))]

RecordLists == UNION {[1..k -> SampleRecords] : k \in 1..MaxLines}

ValidateUnused ==
    /\ hex_data = [addresses |-> <<>>, min_addr |-> 0, max_addr |-> 0,
                   total_bytes |-> 0, segments |-> <<>>]
    /\ safety = Idle

InitParse ==
    /\ records \in RecordLists
    /\ mutation \in Mutations(records)
    /\ hex_file = FileText(records, mutation)
    /\ parsed = Idle
    /\ ValidateUnused
    /\ MainUnused
    /\ PhaseUnused

\* hex_data = parse_intel_hex(hex_path)
ParseIntelHex ==
    /\ parsed = Idle
    /\ parsed' = parse_intel_hex(hex_file)
    /\ UNCHANGED <<valVars, records, mutation, hex_file, mainVars, phaseVars>>

NextParse == ParseIntelHex

SpecParse == InitParse /\ [][NextParse]_vars

\* ------------------------------------------------------------------------
\* uf2_upload.py: validate_hex and main()
\* ------------------------------------------------------------------------
MAX_BOOTLOADER_RETRIES == 3
REBOOT_TIMEOUT == 8
PORT_REAPPEAR_TIMEOUT == 10

PortA == "/dev/ttyACM0"
PortB == "/dev/ttyACM1"
PortLists == {<<>>, <<PortA>>, <<PortA, PortB>>}

EofRecord == Rec(0, 0, 1, <<>>)

\* One data byte at 0x27000, behind a type-04 record: every check passes.
GoodImage == <<Rec(2, 0, 4, <<0, 2>>), Rec(1, 28672, 0, <<170>>), EofRecord>>

\* Two data bytes at 0xFF000: the image ends inside the config region.
WarningImage ==
    <<Rec(2, 0, 4, <<0, 15>>), Rec(2, 61440, 0, <<1, 2>>), EofRecord>>

\* Two data bytes at 0x10: below the safety floor, in the bootloader.
CriticalImage == <<Rec(2, 16, 0, <<1, 2>>), EofRecord>>

\* A type-04 record without payload: int('', 16) raises ValueError.
NoPayloadImage == <<Rec(0, 0, 4, <<>>), EofRecord>>

Images ==
    {[records |-> GoodImage, mutation |-> NoMutation],
     [records |-> WarningImage, mutation |-> NoMutation],
     [records |-> CriticalImage, mutation |-> NoMutation],
     [records |-> NoPayloadImage, mutation |-> NoMutation],
     [records |-> GoodImage,
      mutation |-> [kind |-> "flip", line |-> 2, arg |-> 0]]}

\* Images without a data record before the end-of-file record: the
\* end-of-file record alone, behind a type-04 record, behind a blank line,
\* and in front of a data record that is never read.
EmptyImages ==
    {[records |-> <<EofRecord>>, mutation |-> NoMutation],
     [records |-> <<Rec(2, 0, 4, <<0, 2>>), EofRecord>>,
      mutation |-> NoMutation],
     [records |-> <<BlankLine, EofRecord>>, mutation |-> NoMutation],
     [records |-> <<EofRecord, Rec(1, 28672, 0, <<170>>)>>,
      mutation |-> NoMutation]}

NoImage == [records |-> <<>>, mutation |-> NoMutation]

\* A validate_hex that prints the critical failure and lets the upload go on.
validate_hex_reporting(importable, p, report) ==
    IF ~importable THEN "True"
    ELSE IF p.kind = "HexValidationError" THEN "False"
    ELSE IF p.kind = "ValueError" THEN "ValueError"
    ELSE IF report.kind = "SafetyError" THEN "True"
    ELSE IF \A i \in 1..Len(report.returned) : report.returned[i].passed
    THEN "True"
    ELSE "False"

\* validate_hex, uf2_upload.py:128-170, from what its two calls gave: p is
\* the outcome of parse_intel_hex and report that of validate_safety (Idle
\* for a call that was not made).  The value is what validate_hex returns,
\* or "ValueError" when parse_intel_hex leaves it with one (only
\* HexValidationError is caught).  Without the pre_upload_check module the
\* image is accepted unread.
validate_hex(importable, p, report) ==
    IF ~importable THEN "True"
    ELSE IF p.kind = "HexValidationError" THEN "False"
    ELSE IF p.kind = "ValueError" THEN "ValueError"
    ELSE IF report.kind = "SafetyError" THEN "False"
    ELSE IF \A i \in 1..Len(report.returned) : report.returned[i].passed
    THEN "True"
    ELSE "False"

\* The command line "uf2_upload.py /dev/ttyACM0" (parse_args, lines
\* 1197-1270).
DefaultArgs ==
    [self_test |-> FALSE, all |-> FALSE, ports |-> <<PortA>>,
     already_in_bootloader |-> FALSE, dry_run |-> FALSE,
     uf2_file |-> "none", hex |-> "present",
     skip_validation |-> FALSE, parallel |-> FALSE,
     mount_point |-> "none"]

ArgSets ==
    {DefaultArgs,
     [DefaultArgs EXCEPT !.self_test = TRUE, !.ports = <<>>],
     [DefaultArgs EXCEPT !.all = TRUE],
     [DefaultArgs EXCEPT !.all = TRUE, !.ports = <<>>],
     [DefaultArgs EXCEPT !.ports = <<>>],
     [DefaultArgs EXCEPT !.ports = <<>>, !.dry_run = TRUE],
     [DefaultArgs EXCEPT !.dry_run = TRUE],
     [DefaultArgs EXCEPT !.uf2_file = "missing"],
     [DefaultArgs EXCEPT !.uf2_file = "present"],
     [DefaultArgs EXCEPT !.hex = "missing"],
     [DefaultArgs EXCEPT !.skip_validation = TRUE],
     [DefaultArgs EXCEPT !.parallel = TRUE],
     [DefaultArgs EXCEPT !.ports = <<PortA, PortB>>],
     [DefaultArgs EXCEPT !.ports = <<PortA, PortB>>, !.parallel = TRUE],
     [DefaultArgs EXCEPT !.ports = <<PortA, PortB>>,
                         !.already_in_bootloader = TRUE],
     [DefaultArgs EXCEPT !.already_in_bootloader = TRUE],
     [DefaultArgs EXCEPT !.already_in_bootloader = TRUE,
                         !.mount_point = "marked"],
     [DefaultArgs EXCEPT !.already_in_bootloader = TRUE,
                         !.mount_point = "unmarked"],
     [DefaultArgs EXCEPT !.already_in_bootloader = TRUE, !.ports = <<>>]}

EnvSets == [importable : BOOLEAN, detected : {<<>>, <<PortA>>}]

\* validate_hex is called: main(), lines 1669-1685.
Validates(a) ==
    ~a.self_test /\ a.uf2_file = "none" /\ a.hex = "present"
    /\ ~a.skip_validation

\* Command lines and installations, without the combinations that differ
\* only in something the run never reads: the image is read by validate_hex
\* alone, the detected ports by --all alone.  The images other than the
\* good one come with the default command line and with --dry-run, the
\* empty ones where the validator is there to read them.
Scenario(a, e, img) ==
    /\ ~a.all => e.detected = <<>>
    /\ IF a = DefaultArgs \/ a = [DefaultArgs EXCEPT !.dry_run = TRUE]
       THEN img \in Images \cup (IF e.importable THEN EmptyImages ELSE {})
       ELSE /\ e.importable
            /\ img = IF Validates(a)
                     THEN [records |-> GoodImage, mutation |-> NoMutation]
                     ELSE NoImage
    /\ a.dry_run => e.importable

Init ==
    /\ hex_data = [addresses |-> <<>>, min_addr |-> 0, max_addr |-> 0,
                   total_bytes |-> 0, segments |-> <<>>]
    /\ safety = Idle
    /\ parsed = Idle
    /\ PhaseUnused
    /\ \E a \in ArgSets, e \in EnvSets, img \in Images \cup EmptyImages \cup {NoImage} :
          /\ Scenario(a, e, img)
          /\ args = a
          /\ env = e
          /\ records = img.records
          /\ mutation = img.mutation
          /\ hex_file = FileText(img.records, img.mutation)
    /\ pc = "start"
    /\ exit_status = -1
    /\ failure = ""
    /\ ports = <<>>
    /\ conversion = "not run"
    /\ hw = {}
    /\ results = <<>>
    /\ dev = NoDevice
    /\ mount_map = <<>>

Event(port, act) == [port |-> port, act |-> act]

\* return <status>, after the last message printed
Exit(status, banner) ==
    /\ pc' = "done"
    /\ exit_status' = status
    /\ failure' = banner

\* main(), lines 1637-1667: self-test, port list, argument errors.
ResolvePorts ==
    /\ pc = "start"
    /\ UNCHANGED <<valVars, parseVars, phaseVars, args, env, conversion, hw, results,
                   dev, mount_map>>
    /\ IF args.self_test
       THEN /\ \E ok \in BOOLEAN : Exit(IF ok THEN 0 ELSE 1, "")
            /\ UNCHANGED ports
       ELSE IF args.all /\ args.ports # <<>>
       THEN /\ Exit(1, "ERROR: Cannot specify both --all and explicit ports")
            /\ UNCHANGED ports
       ELSE IF args.all /\ env.detected = <<>>
       THEN /\ Exit(1, "ERROR: No XIAO devices detected (--all)")
            /\ ports' = <<>>
       ELSE LET found == IF args.all THEN env.detected ELSE args.ports
            IN /\ ports' = found
               /\ IF found = <<>> /\ ~args.already_in_bootloader
                     /\ ~args.dry_run
                  THEN Exit(1, "ERROR: Serial port required")
                  ELSE IF args.already_in_bootloader /\ Len(found) > 1
                  THEN Exit(1, "ERROR: --already-in-bootloader only works with a single device")
                  ELSE /\ pc' = "phase12"
                       /\ UNCHANGED <<exit_status, failure>>

\* except FileNotFoundError / TimeoutError / RuntimeError in main(): the
\* message, cleanup_stale_mounts(), return <status>.
HandledError(status, banner) ==
    /\ Exit(status, banner)
    /\ hw' = hw \cup {Event("", "cleanup_stale_mounts")}

\* main(), lines 1669-1685: the pre-converted image, or find_hex_file and
\* validate_hex.
LocateAndValidate ==
    /\ pc = "phase12"
    /\ UNCHANGED <<records, mutation, hex_file, phaseVars, args, env, ports, conversion,
                   results, dev, mount_map>>
    /\ IF args.uf2_file = "missing"
       THEN /\ Exit(1, "ERROR: UF2 file not found")
            /\ UNCHANGED <<valVars, parsed, hw>>
       ELSE IF args.uf2_file = "present"
       THEN /\ pc' = "dispatch"
            /\ UNCHANGED <<valVars, parsed, hw, exit_status, failure>>
       ELSE IF args.hex = "missing"
       THEN /\ HandledError(2, "ERROR: No hex file found")
            /\ UNCHANGED <<valVars, parsed>>
       ELSE IF args.skip_validation
       THEN /\ pc' = "convert"
            /\ UNCHANGED <<valVars, parsed, hw, exit_status, failure>>
       ELSE /\ parsed' = IF env.importable THEN parse_intel_hex(hex_file)
                          ELSE Idle
            /\ safety' = IF parsed'.kind = "ok"
                         THEN validate_safety(HexData(parsed'))
                         ELSE Idle
            /\ hex_data' = IF parsed'.kind = "ok" THEN HexData(parsed')
                           ELSE hex_data
            /\ UNCHANGED hw
            /\ CASE validate_hex(env.importable, parsed', safety') = "True" ->
                      /\ pc' = "convert"
                      /\ UNCHANGED <<exit_status, failure>>
                 [] validate_hex(env.importable, parsed', safety') = "False" ->
                      Exit(1, "SAFETY VALIDATION FAILED - Upload blocked")
                 [] OTHER ->
                      \* no handler in main(): the interpreter prints the
                      \* traceback and exits with status 1
                      Exit(1, "Traceback: ValueError")

\* main(), line 1687: convert_to_uf2 (lines 177-230) and its exceptions.
Convert ==
    /\ pc = "convert"
    /\ UNCHANGED <<valVars, parseVars, phaseVars, args, env, ports, results, dev,
                   mount_map>>
    /\ \E outcome \in {"ok", "no converter", "failed"} :
          /\ conversion' = outcome
          /\ CASE outcome = "ok" ->
                    /\ pc' = "dispatch"
                    /\ UNCHANGED <<exit_status, failure, hw>>
               [] outcome = "no converter" ->
                    HandledError(2, "ERROR: uf2conv.py not found")
               [] OTHER ->
                    HandledError(1, "ERROR: UF2 conversion failed")

\* Variables no device phase changes.
fixedVars == <<valVars, parseVars, phaseVars, args, env, ports, conversion>>

\* A dry run that stops only when no port was named.
DryRunWithoutPorts(a) == a.dry_run /\ a.ports = <<>>

\* main(), line 1689: if args.dry_run.
DryRun(a) == a.dry_run

\* main(), lines 1689-1725: dry run, already-in-bootloader, the strategy.
Dispatch ==
    /\ pc = "dispatch"
    /\ UNCHANGED <<fixedVars, hw, results, mount_map>>
    /\ IF DryRun(args)
       THEN /\ Exit(0, "")
            /\ UNCHANGED dev
       ELSE IF args.already_in_bootloader
       THEN /\ pc' = "aib_mount"
            /\ UNCHANGED <<exit_status, failure, dev>>
       ELSE IF args.parallel /\ Len(ports) > 1
       THEN /\ pc' = "par_start"
            /\ UNCHANGED <<exit_status, failure, dev>>
       ELSE /\ pc' = "seq_next"
            /\ dev' = NoDevice
            /\ UNCHANGED <<exit_status, failure>>

Result(port, ok, msg) == [port |-> port, ok |-> ok, msg |-> msg]

\* A count that is satisfied by one device that succeeded.
AnyOk(list) == \E k \in 1..Len(list) : list[k].ok

\* main(), lines 1746-1747 and 1755: succeeded == total.
AllOk(list) == \A k \in 1..Len(list) : list[k].ok

\* main(), lines 1755-1760: the exit status of a multi-device run.
ExitStatus(list) == IF AllOk(list) THEN 0 ELSE 1

\* main(), lines 1744-1769: the exit status from the result list.
Summary(list) ==
    IF Len(ports) > 1
    THEN Exit(ExitStatus(list), "")
    ELSE Exit(IF list[1].ok THEN 0 ELSE 1,
              IF list[1].ok THEN "" ELSE "UPLOAD FAILED")

\* A loop that waits for the bus to settle after every device.
SettleAlways(list) == list # <<>>

\* main(), lines 1732-1736: the settle delay is taken when there was a
\* device before this one and its result is a success.
SettleAfter(list) == list # <<>> /\ list[Len(list)].ok

\* main(), lines 1727-1739: the next port of the sequential loop, with the
\* settle delay after a device that succeeded; after the last port, the
\* summary.
SeqNext ==
    /\ pc = "seq_next"
    /\ UNCHANGED <<fixedVars, results, mount_map>>
    /\ IF dev.i < Len(ports)
       THEN /\ dev' = [NoDevice EXCEPT !.i = dev.i + 1]
            /\ pc' = "preflight"
            /\ hw' = IF SettleAfter(results)
                     THEN hw \cup {Event(ports[dev.i + 1], "settle")}
                     ELSE hw
            /\ UNCHANGED <<exit_status, failure>>
       ELSE /\ Summary(results)
            /\ UNCHANGED <<dev, hw>>

\* return False, "<message>" / return True, msg of upload_to_device, and
\* results.append((port, success, message)) in main()
\* device_serial and the hub location are locals of the call that has
\* returned; d carries what bootloader entry did for the device.
DeviceDone(d, ok, msg) ==
    /\ results' = Append(results, Result(ports[dev.i], ok, msg))
    /\ dev' = [d EXCEPT !.serial = FALSE, !.hub = FALSE]
    /\ pc' = "seq_next"
    /\ UNCHANGED <<exit_status, failure>>

\* What _check_port_available can find: the port missing from the system
\* port list, a VID/PID that is not the application-mode one, the port
\* locked by another process (EBUSY), another error on opening it, or
\* nothing wrong.
PortChecks == {"ok", "absent", "wrong id", "busy", "open error"}

\* The findings C11 is about.
Unavailable == {"absent", "wrong id", "busy"}

\* A pre-flight check that takes a locked port for a transient error.
check_port_available_unlocked(check) == check \in {"ok", "open error", "busy"}

\* _check_port_available, lines 389-446: False for a port that is absent,
\* has another identity or is busy; an error other than EBUSY on opening
\* the port "may be transient" and gives True.
check_port_available(check) == check \in {"ok", "open error"}

\* What pre-flight found on a port, when it is one of Unavailable.
PreflightFinding(port, check) ==
    IF check \in Unavailable THEN {Event(port, check)} ELSE {}

\* get_serial_number(port) and _find_usb_hub_port(port), lines 473 and 482,
\* 1369 and 1374.
IdentityRead(port) ==
    {Event(port, "get_serial_number"), Event(port, "_find_usb_hub_port")}

\* trigger_bootloader, lines 465-489: _check_port_available, then the
\* serial number and the hub location.
Preflight ==
    /\ pc = "preflight"
    /\ UNCHANGED <<fixedVars, mount_map>>
    /\ \E check \in PortChecks, sn \in BOOLEAN, hub \in BOOLEAN :
          /\ hw' = hw \cup PreflightFinding(ports[dev.i], check)
                      \cup (IF check_port_available(check)
                            THEN IdentityRead(ports[dev.i]) ELSE {})
          /\ IF ~check_port_available(check)
             THEN DeviceDone(dev, FALSE, "bootloader entry failed")
             ELSE /\ dev' = [dev EXCEPT !.attempt = 1, !.serial = sn,
                                        !.hub = hub]
                  /\ pc' = "attempt"
                  /\ UNCHANGED <<results, exit_status, failure>>

\* A pass that tries the 1200-baud touch on every attempt.
EntryPassTouchingAlways(a, sn, hub, o) ==
    LET lost == a > 1 /\ o.gone /\ sn /\ ~o.rediscovered
        recovery == lost /\ hub
        skipped == lost /\ (~hub \/ ~o.recovered)
        dead == a > 1 /\ o.gone /\ ~sn
        command == ~skipped /\ ~dead /\ o.sent
        entered1 == command /\ o.drive1
        vanished == command /\ ~o.drive1 /\ o.gone_after
        toggle == ~skipped /\ ~entered1 /\ ~vanished /\ o.touched
        entered2 == toggle /\ o.drive2
    IN [events |-> (IF recovery THEN <<"power-cycle">> ELSE <<>>)
                   \o (IF command THEN <<"command">> ELSE <<>>)
                   \o (IF toggle THEN <<"toggle">> ELSE <<>>),
        entered |-> entered1 \/ entered2]

\* What one pass of the retry loop does, from what the system shows:
\*   gone          the port path does not exist at the start of a retry
\*   rediscovered  find_port_by_serial finds the device
\*   recovered     _recover_usb_port brings it back
\*   sent          the port opens and the command is written
\*   drive1        a new block device appears after the command
\*   gone_after    the port path does not exist after the wait
\*   touched       the port opens at 1200 baud
\*   drive2        a new block device appears after the toggle
\* A retry looks for a vanished device, and power-cycles its USB port, only
\* when a serial number was read; without one the stale path is opened.
EntryPass(a, sn, hub, o) ==
    LET lost == a > 1 /\ o.gone /\ sn /\ ~o.rediscovered
        recovery == lost /\ hub
        skipped == lost /\ (~hub \/ ~o.recovered)
        dead == a > 1 /\ o.gone /\ ~sn
        command == ~skipped /\ ~dead /\ o.sent
        entered1 == command /\ o.drive1
        vanished == command /\ ~o.drive1 /\ o.gone_after
        toggle == ~skipped /\ ~entered1 /\ ~vanished /\ a = 1 /\ o.touched
        entered2 == toggle /\ o.drive2
    IN [events |-> (IF recovery THEN <<"power-cycle">> ELSE <<>>)
                   \o (IF command THEN <<"command">> ELSE <<>>)
                   \o (IF toggle THEN <<"toggle">> ELSE <<>>),
        entered |-> entered1 \/ entered2]

\* An observation that neither loop makes is recorded FALSE: the device is
\* looked for only when its port is gone, recovery follows a failed search,
\* the port is checked again only when no drive appeared, the toggle
\* follows a port that is still there, the second wait follows the toggle.
Observations ==
    {o \in [gone : BOOLEAN, rediscovered : BOOLEAN, recovered : BOOLEAN,
            sent : BOOLEAN, drive1 : BOOLEAN, gone_after : BOOLEAN,
            touched : BOOLEAN, drive2 : BOOLEAN] :
        /\ o.rediscovered => o.gone
        /\ o.recovered => o.gone /\ ~o.rediscovered
        /\ o.gone_after => ~o.drive1
        /\ o.touched => ~o.drive1 /\ ~o.gone_after
        /\ o.drive2 => o.touched}

Events(port, acts) == {Event(port, acts[k]) : k \in 1..Len(acts)}

\* The number of "bootloader" commands among the actions of one pass.
Commands(acts) == Len(SelectSeq(acts, LAMBDA act : act = "command"))

\* A retry loop that goes round once more than MAX_BOOTLOADER_RETRIES.
LastAttemptOneLate(a) == a > MAX_BOOTLOADER_RETRIES

\* for attempt in range(1, MAX_BOOTLOADER_RETRIES + 1): the pass that ends
\* the loop.
LastAttempt(a) == a >= MAX_BOOTLOADER_RETRIES

\* trigger_bootloader, lines 491-598: one pass of "for attempt in range(1,
\* MAX_BOOTLOADER_RETRIES + 1)".  It returns device_serial when a drive
\* appeared, and upload_to_device (lines 1286-1288) takes None for failure.
Attempt ==
    /\ pc = "attempt"
    /\ UNCHANGED <<fixedVars, mount_map>>
    /\ \E o \in Observations :
          LET pass == EntryPass(dev.attempt, dev.serial, dev.hub, o)
              sent == [dev EXCEPT !.commands = @ + Commands(pass.events)]
          IN /\ hw' = hw \cup Events(ports[dev.i], pass.events)
             /\ IF pass.entered
                THEN IF dev.serial
                     THEN /\ dev' = [sent EXCEPT !.entered = TRUE]
                          /\ pc' = "mount"
                          /\ UNCHANGED <<results, exit_status, failure>>
                     ELSE DeviceDone([sent EXCEPT !.entered = TRUE], FALSE,
                                     "bootloader entry failed")
                ELSE IF ~LastAttempt(dev.attempt)
                THEN /\ dev' = [sent EXCEPT !.attempt = @ + 1]
                     /\ UNCHANGED <<pc, results, exit_status, failure>>
                ELSE DeviceDone(sent, FALSE, "bootloader entry failed")

\* What a mount command can do: return 0, fail, fail because the device is
\* already mounted, or outlive its timeout.
MountRuns == {"ok", "failed", "already mounted", "timeout"}

\* mount_with_udisksctl, lines 805-842.
\*   run       how "udisksctl mount" ended
\*   path      its output names a mount point that exists
\*   marker    the marker file is at that mount point
\*   existing  find_existing_uf2_mount finds a marked volume afterwards
\* point is what the caller gets: the directory udisksctl mounted on
\* (under /run/media), the volume found already mounted, or nothing.
mount_with_udisksctl(o) ==
    LET acts == <<"udisksctl mount">>
    IN CASE o.run = "ok" /\ o.path /\ o.marker ->
              [kind |-> "ok", point |-> "/run/media", acts |-> acts]
         [] o.run = "already mounted" /\ o.existing ->
              [kind |-> "ok", point |-> "existing", acts |-> acts]
         [] OTHER -> [kind |-> "None", point |-> "none", acts |-> acts]

UdisksObservations ==
    [run : MountRuns, path : BOOLEAN, marker : BOOLEAN, existing : BOOLEAN]

\* mount_manually, lines 845-890: a timeout of mkdir or of umount is only
\* warned about.
mount_manually(o) ==
    CASE o.run = "ok" /\ o.marker ->
            [kind |-> "ok", point |-> "/mnt/uf2-upload",
             acts |-> <<"sudo mount">>]
      [] o.run = "ok" /\ ~o.marker ->
            [kind |-> "None", point |-> "none",
             acts |-> <<"sudo mount", "sudo umount">>]
      [] OTHER ->
            [kind |-> "None", point |-> "none", acts |-> <<"sudo mount">>]

ManualObservations == [run : MountRuns, marker : BOOLEAN]

\* mount_uf2_drive, lines 935-985: the commands issued and what the caller
\* gets.
\*   existing   find_existing_uf2_mount finds a marked volume
\*   block      find_uf2_block_device finds a block device in time
\*   udisks     ensure_udisks2_running
\*   udisksctl  what mount_with_udisksctl observes
\*   manual     what mount_manually observes
mount_uf2_drive(o) ==
    IF o.existing THEN [kind |-> "ok", point |-> "existing", acts |-> <<>>]
    ELSE IF ~o.block
    THEN [kind |-> "TimeoutError", point |-> "none", acts |-> <<>>]
    ELSE LET first == IF o.udisks THEN mount_with_udisksctl(o.udisksctl)
                      ELSE [kind |-> "None", point |-> "none", acts |-> <<>>]
             second == mount_manually(o.manual)
         IN IF first.kind = "ok" THEN first
            ELSE [kind |-> IF second.kind = "ok" THEN "ok" ELSE "RuntimeError",
                  point |-> second.point,
                  acts |-> first.acts \o second.acts]

MountObservations ==
    [existing : BOOLEAN, block : BOOLEAN, udisks : BOOLEAN,
     udisksctl : UdisksObservations, manual : ManualObservations]

\* Every way mount_uf2_drive can end.
MountResults == {mount_uf2_drive(o) : o \in MountObservations}

\* The devices taken up earlier in the run whose volume is still mounted
\* with the marker file on it: verify_reboot, lines 1039-1084, fails when
\* the marker is still there at the end of its first wait.
StillMounted ==
    {k \in 1..Len(results) : results[k].msg = "reboot verification failed"}

\* find_existing_uf2_mount, lines 782-802: the first directory under the
\* search directories that holds the marker file, whichever device it is
\* the volume of; a mount made for a block device is of that device.
VolumeOwners(point) ==
    IF point = "existing" THEN {dev.i} \cup StillMounted ELSE {dev.i}

\* upload_to_device, lines 1290-1294 and 1309-1312.
Mount ==
    /\ pc = "mount"
    /\ UNCHANGED <<fixedVars, mount_map>>
    /\ \E m \in MountResults :
       \E owner \in VolumeOwners(m.point) :
             /\ hw' = hw \cup Events(ports[dev.i], m.acts)
             /\ CASE m.kind = "ok" ->
                       /\ pc' = "copy"
                       /\ dev' = [dev EXCEPT !.mount = m.point,
                                              !.volume = owner]
                       /\ UNCHANGED <<results, exit_status, failure>>
                  [] m.kind = "TimeoutError" ->
                       DeviceDone(dev, FALSE, "timeout")
                  [] OTHER -> DeviceDone(dev, FALSE, "error")

\* A copy_firmware that writes without looking for the marker file.
copy_firmware_unchecked(outcome) ==
    IF outcome = "copy error" THEN [ok |-> FALSE, acts |-> <<"copy">>]
    ELSE [ok |-> TRUE, acts |-> <<"copy", "sync">>]

\* copy_firmware, lines 992-1032: "no marker" writes nothing; "copied" and
\* "copy error" both start the write.
copy_firmware(outcome) ==
    IF outcome = "no marker" THEN [ok |-> FALSE, acts |-> <<>>]
    ELSE IF outcome = "copied" THEN [ok |-> TRUE, acts |-> <<"copy", "sync">>]
    ELSE [ok |-> FALSE, acts |-> <<"copy">>]

CopyOutcomes == {"no marker", "copied", "copy error"}

\* upload_to_device, lines 1296-1298.
Copy ==
    /\ pc = "copy"
    /\ UNCHANGED <<fixedVars, mount_map>>
    /\ \E outcome \in CopyOutcomes :
          LET c == copy_firmware(outcome)
          IN /\ hw' = hw \cup Events(ports[dev.i], c.acts)
             /\ IF c.ok
                THEN /\ pc' = "verify"
                     /\ UNCHANGED <<dev, results, exit_status, failure>>
                ELSE DeviceDone(dev, FALSE, "firmware copy failed")

\* A verify_reboot that fails a board whose port does not come back.
verify_reboot_strict(drive_gone, port_back) == drive_gone /\ port_back

\* verify_reboot, lines 1039-1084: failure when the marker is still there
\* at the end of the first wait; success otherwise, with or without the
\* port coming back.
verify_reboot(drive_gone, port_back) == drive_gone

\* upload_to_device, lines 1300-1307.
Verify ==
    /\ pc = "verify"
    /\ hw' = hw \cup {Event(ports[dev.i], "verify_reboot")}
    /\ UNCHANGED <<fixedVars, mount_map>>
    /\ \E drive_gone \in BOOLEAN, port_back \in BOOLEAN :
          IF verify_reboot(drive_gone, port_back)
          THEN DeviceDone(dev, TRUE, "OK")
          ELSE DeviceDone(dev, FALSE, "reboot verification failed")

\* The port the already-in-bootloader path names in its actions.
AibPort == IF ports = <<>> THEN "" ELSE ports[1]

\* main(), lines 1698-1706: --mount-point, or mount_uf2_drive; its
\* TimeoutError and RuntimeError reach main()'s handlers.
AibMount ==
    /\ pc = "aib_mount"
    /\ UNCHANGED <<fixedVars, results, dev, mount_map>>
    /\ IF args.mount_point = "unmarked"
       THEN /\ Exit(1, "ERROR: INFO_UF2.TXT not found")
            /\ UNCHANGED hw
       ELSE IF args.mount_point = "marked"
       THEN /\ pc' = "aib_copy"
            /\ UNCHANGED <<hw, exit_status, failure>>
       ELSE \E m \in MountResults :
               LET done == hw \cup Events(AibPort, m.acts)
               IN CASE m.kind = "ok" ->
                         /\ hw' = done
                         /\ pc' = "aib_copy"
                         /\ UNCHANGED <<exit_status, failure>>
                    [] m.kind = "TimeoutError" ->
                         /\ Exit(3, "TIMEOUT")
                         /\ hw' = done \cup {Event("", "cleanup_stale_mounts")}
                    [] OTHER ->
                         /\ Exit(1, "ERROR")
                         /\ hw' = done \cup {Event("", "cleanup_stale_mounts")}

\* main(), lines 1708-1710.
AibCopy ==
    /\ pc = "aib_copy"
    /\ UNCHANGED <<fixedVars, results, dev, mount_map>>
    /\ \E outcome \in CopyOutcomes :
          LET c == copy_firmware(outcome)
          IN /\ hw' = hw \cup Events(AibPort, c.acts)
             /\ IF c.ok
                THEN /\ pc' = "aib_verify"
                     /\ UNCHANGED <<exit_status, failure>>
                ELSE Exit(1, "FIRMWARE COPY FAILED")

\* main(), lines 1712-1718.
AibVerify ==
    /\ pc = "aib_verify"
    /\ UNCHANGED <<fixedVars, hw, results, dev, mount_map>>
    /\ \E drive_gone \in BOOLEAN, port_back \in BOOLEAN :
          IF verify_reboot(drive_gone, port_back)
          THEN Exit(0, "")
          ELSE Exit(1, "REBOOT VERIFICATION FAILED")

NoEntry ==
    [serial |-> FALSE, hub |-> FALSE, block_dev |-> FALSE,
     mount_point |-> FALSE, copied |-> FALSE]

\* A first phase that records the identity of the first port only.
FirstPortRecorded(list) == IdentityRead(list[1])

\* upload_parallel, lines 1368-1378: for port in ports.
PortsRecorded(list) == UNION {IdentityRead(list[k]) : k \in 1..Len(list)}

\* upload_parallel, lines 1361-1378: stale mounts, then the serial number
\* and hub location of every port.
ParStart ==
    /\ pc = "par_start"
    /\ UNCHANGED <<fixedVars, results, exit_status, failure>>
    /\ hw' = hw \cup {Event("", "cleanup_stale_mounts")}
                \cup PortsRecorded(ports)
    /\ \E sns \in [1..Len(ports) -> BOOLEAN],
          hubs \in [1..Len(ports) -> BOOLEAN] :
          mount_map' = [k \in 1..Len(ports) |->
                           [NoEntry EXCEPT !.serial = sns[k],
                                           !.hub = hubs[k]]]
    /\ dev' = NoDevice
    /\ pc' = "par_next"

\* A loop that takes up every device at once.
StaggerNever(i) == FALSE

\* upload_parallel, lines 1384-1386: the 2 s delay before every device but
\* the first; i devices were taken up before this one.
StaggerBefore(i) == i > 0

\* upload_parallel, lines 1383-1396: the next port, the stagger delay and
\* its pre-flight check; after the last port, on to the copy phase, the
\* loop's variables left behind.
ParNext ==
    /\ pc = "par_next"
    /\ UNCHANGED <<fixedVars, results, mount_map, exit_status, failure>>
    /\ IF dev.i < Len(ports)
       THEN \E check \in PortChecks :
               /\ hw' = hw \cup (IF StaggerBefore(dev.i)
                                 THEN {Event(ports[dev.i + 1], "stagger")}
                                 ELSE {})
                           \cup PreflightFinding(ports[dev.i + 1], check)
               /\ IF ~check_port_available(check)
                  THEN /\ dev' = [NoDevice EXCEPT !.i = dev.i + 1]
                       /\ UNCHANGED pc
                  ELSE /\ dev' = [NoDevice EXCEPT
                                     !.i = dev.i + 1, !.attempt = 1,
                                     !.serial = mount_map[dev.i + 1].serial,
                                     !.hub = mount_map[dev.i + 1].hub]
                       /\ pc' = "par_attempt"
       ELSE /\ pc' = "par_copy"
            /\ dev' = [NoDevice EXCEPT !.i = dev.i]
            /\ UNCHANGED hw

\* One pass of the staggered retry loop, lines 1401-1518.  Unlike the
\* single-device loop, the wait for a new block device follows a serial
\* error too.
ParEntryPass(a, sn, hub, o) ==
    LET lost == a > 1 /\ o.gone /\ sn /\ ~o.rediscovered
        recovery == lost /\ hub
        skipped == lost /\ (~hub \/ ~o.recovered)
        dead == a > 1 /\ o.gone /\ ~sn
        command == ~skipped /\ ~dead /\ o.sent
        entered1 == ~skipped /\ o.drive1
        vanished == ~skipped /\ ~o.drive1 /\ o.gone_after
        toggle == ~skipped /\ ~entered1 /\ ~vanished /\ a = 1 /\ o.touched
        entered2 == toggle /\ o.drive2
    IN [events |-> (IF recovery THEN <<"power-cycle">> ELSE <<>>)
                   \o (IF command THEN <<"command">> ELSE <<>>)
                   \o (IF toggle THEN <<"toggle">> ELSE <<>>),
        entered |-> entered1 \/ entered2]

\* upload_parallel, lines 1401-1522.
ParAttempt ==
    /\ pc = "par_attempt"
    /\ UNCHANGED <<fixedVars, results, exit_status, failure>>
    /\ \E o \in Observations :
          LET pass == ParEntryPass(dev.attempt, dev.serial, dev.hub, o)
              sent == [dev EXCEPT !.commands = @ + Commands(pass.events)]
          IN /\ hw' = hw \cup Events(ports[dev.i], pass.events)
             /\ IF pass.entered
                THEN /\ mount_map' = [mount_map EXCEPT
                                         ![dev.i].block_dev = TRUE]
                     /\ pc' = "par_mount"
                     /\ dev' = [sent EXCEPT !.entered = TRUE]
                ELSE IF ~LastAttempt(dev.attempt)
                THEN /\ dev' = [sent EXCEPT !.attempt = @ + 1]
                     /\ UNCHANGED <<pc, mount_map>>
                ELSE /\ pc' = "par_next"
                     /\ dev' = sent
                     /\ UNCHANGED mount_map

\* mount_device, lines 893-932.  "TimeoutExpired" is the exception of
\* subprocess.run when mkdir, mount or umount outlives its timeout, which
\* mount_device does not catch.
\*   mkdir   how "sudo mkdir -p" ended
\*   run     how "sudo mount" ended
\*   marker  the marker file is at the mount point
\*   umount  how "sudo umount" ended, when it is issued
mount_device(o) ==
    CASE o.mkdir = "timeout" ->
            [kind |-> "TimeoutExpired", point |-> "none", acts |-> <<>>]
      [] o.run = "timeout" ->
            [kind |-> "TimeoutExpired", point |-> "none",
             acts |-> <<"sudo mount">>]
      [] o.run = "ok" /\ o.marker ->
            [kind |-> "ok", point |-> "/mnt/uf2-N", acts |-> <<"sudo mount">>]
      [] o.run = "ok" /\ ~o.marker ->
            [kind |-> IF o.umount = "timeout" THEN "TimeoutExpired"
                      ELSE "None",
             point |-> "none", acts |-> <<"sudo mount", "sudo umount">>]
      [] o.run = "already mounted" /\ o.marker ->
            [kind |-> "ok", point |-> "existing", acts |-> <<"sudo mount">>]
      [] OTHER -> [kind |-> "None", point |-> "none", acts |-> <<"sudo mount">>]

DeviceMountObservations ==
    [mkdir : {"ok", "timeout"}, run : MountRuns, marker : BOOLEAN,
     umount : {"ok", "timeout"}]

\* Every way mount_device can end.
DeviceMountResults == {mount_device(o) : o \in DeviceMountObservations}

\* _cleanup_parallel_mounts, lines 1319-1336: a lazy unmount of every mount
\* point of the map that still exists.
CleanupParallel(map, present) ==
    {Event(ports[k], "umount -l") :
        k \in {j \in 1..Len(map) : map[j].mount_point /\ present[j]}}

\* Before the unmount phase the directory of every mount point made is
\* there.
StillThere == [k \in 1..Len(ports) |-> TRUE]

\* upload_parallel, lines 1524-1530; an exception of the mount command
\* leaves upload_parallel through its finally clause and main() without a
\* handler.
ParMount ==
    /\ pc = "par_mount"
    /\ UNCHANGED <<fixedVars, results, dev>>
    /\ \E m \in DeviceMountResults :
          LET done == hw \cup Events(ports[dev.i], m.acts)
          IN IF m.kind = "TimeoutExpired"
             THEN /\ hw' = done \cup CleanupParallel(mount_map, StillThere)
                  /\ Exit(1, "Traceback: TimeoutExpired")
                  /\ UNCHANGED mount_map
             ELSE /\ hw' = done
                  /\ mount_map' = [mount_map EXCEPT
                                      ![dev.i].mount_point = (m.kind = "ok")]
                  /\ pc' = "par_next"
                  /\ UNCHANGED <<exit_status, failure>>

\* A copy phase that takes every device whose block device appeared.
MountedOrEntered(map) == {k \in 1..Len(map) : map[k].block_dev}

\* upload_parallel, lines 1532 and 1549-1551: the entries of mount_map
\* that have a mount point.
Mounted(map) == {k \in 1..Len(map) : map[k].mount_point}

CopyAll(map, outcomes) ==
    UNION {Events(ports[k], copy_firmware(outcomes[k]).acts) :
              k \in Mounted(map)}

\* upload_parallel, lines 1532-1547: without a mounted drive every port is
\* reported "mount failed" and main() goes on to the summary; otherwise the
\* firmware is copied to each mounted drive.
ParCopy ==
    /\ pc = "par_copy"
    /\ UNCHANGED <<fixedVars, dev>>
    /\ IF Mounted(mount_map) = {}
       THEN /\ results' = [k \in 1..Len(ports) |->
                              Result(ports[k], FALSE, "mount failed")]
            /\ Summary(results')
            /\ UNCHANGED <<hw, mount_map>>
       ELSE \E outcomes \in [1..Len(ports) -> CopyOutcomes] :
               /\ hw' = hw \cup CopyAll(mount_map, outcomes)
               /\ mount_map' = [k \in 1..Len(ports) |->
                                   [mount_map[k] EXCEPT !.copied =
                                       mount_map[k].mount_point
                                       /\ copy_firmware(outcomes[k]).ok]]
               /\ pc' = "par_unmount"
               /\ UNCHANGED <<results, exit_status, failure>>

UnmountAll(map) == {Event(ports[k], "sudo umount") : k \in Mounted(map)}

\* upload_parallel, lines 1549-1576.
ParUnmount ==
    /\ pc = "par_unmount"
    /\ UNCHANGED <<fixedVars, results, dev, mount_map, exit_status, failure>>
    /\ hw' = hw \cup UnmountAll(mount_map)
    /\ pc' = "par_verify"

\* upload_parallel, lines 1603-1618: the result of one port; back says
\* its serial number was seen again in application mode.
ParallelResult(port, entry, back) ==
    IF ~entry.block_dev
    THEN Result(port, FALSE, "failed to enter bootloader")
    ELSE IF ~entry.mount_point THEN Result(port, FALSE, "mount failed")
    ELSE IF ~entry.copied THEN Result(port, FALSE, "firmware copy failed")
    ELSE IF back THEN Result(port, TRUE, "OK")
    ELSE IF entry.serial
    THEN Result(port, FALSE, "serial port not found after reboot")
    ELSE Result(port, TRUE, "OK (no serial tracking)")

\* upload_parallel, lines 1578-1624, and the summary of main(): the ports
\* seen again (only a port with a serial number can be), the results, the
\* finally clause.
ParVerify ==
    /\ pc = "par_verify"
    /\ UNCHANGED <<fixedVars, dev, mount_map>>
    /\ \E found \in SUBSET {k \in 1..Len(ports) : mount_map[k].serial},
          present \in [1..Len(ports) -> BOOLEAN] :
          /\ results' = [k \in 1..Len(ports) |->
                            ParallelResult(ports[k], mount_map[k], k \in found)]
          /\ hw' = hw \cup {Event("", "verify reboots")}
                      \cup CleanupParallel(mount_map, present)
          /\ Summary(results')

\* cleanup_stale_mounts, lines 734-779: the mount points of /proc/mounts
\* that begin with /mnt/uf2- are released.
stale(point) == point \in {"/mnt/uf2-upload", "/mnt/uf2-N"}

\* The steps of upload_parallel inside its try, lines 1361-1624.
InUploadParallel ==
    pc \in {"par_next", "par_attempt", "par_mount", "par_copy", "par_unmount",
            "par_verify"}

\* The directories _cleanup_parallel_mounts may find: all of them before
\* the unmount phase, any of them after it.
Present ==
    IF pc = "par_verify" THEN [1..Len(ports) -> BOOLEAN] ELSE {StillThere}

\* main(), lines 1785-1788: Ctrl-C anywhere inside the try of main().
\* Out of upload_parallel the exception passes the finally clause
\* (line 1624) first; then the handler of main() calls
\* cleanup_stale_mounts(), which releases the mount point of the device in
\* hand when it is one of /mnt/uf2-*, and returns 130.
Interrupt ==
    /\ pc \notin {"off", "start", "done"}
    /\ UNCHANGED <<fixedVars, results, dev, mount_map>>
    /\ \E present \in Present :
          hw' = hw \cup {Event("", "cleanup_stale_mounts")}
                   \cup (IF InUploadParallel
                         THEN CleanupParallel(mount_map, present)
                         ELSE {})
                   \cup (IF dev.i >= 1 /\ stale(dev.mount)
                         THEN {Event(ports[dev.i], "umount -l")}
                         ELSE {})
    /\ Exit(130, "Upload cancelled")

Next ==
    \/ ResolvePorts
    \/ LocateAndValidate
    \/ Convert
    \/ Dispatch
    \/ SeqNext
    \/ Preflight
    \/ Attempt
    \/ Mount
    \/ Copy
    \/ Verify
    \/ AibMount
    \/ AibCopy
    \/ AibVerify
    \/ ParStart
    \/ ParNext
    \/ ParAttempt
    \/ ParMount
    \/ ParCopy
    \/ ParUnmount
    \/ ParVerify
    \/ Interrupt

Spec == Init /\ [][Next]_vars

\* ========================================================================
\* The device-phase functions, one call at a time (SpecPhase)
\* ========================================================================
\* The longest one time.sleep(0.5) may take, in polls.
MaxSleep == 2

\* verify_reboot sleeps 0.5 s between two polls, lines 1058 and 1078.
PollsPerSecond == 2

\* The block devices the host may show, /dev/sda first.
MaxBlockDevices == 2

\* Seconds find_uf2_block_device is given by mount_uf2_drive.
BOOTLOADER_TIMEOUT == 8

\* Seconds _recover_usb_port waits for the port, line 363.
RecoverTimeout == 10

\* A sleep that returns at once and lets no time pass.
time_sleep_no_time(now, slept) == now

\* time.sleep between two polls of a wait: the clock the next
\* time.monotonic() reads has moved on by what the sleep took.
time_sleep(now, slept) == now + slept

BlockDevs == 1..MaxBlockDevices

\* timeout=5 of _wait_for_uf2_drive and the 5 of upload_parallel's own
\* loops, in tenths of a second.
DriveTimeout == 50

\* time.sleep(0.3) between two scans, in tenths of a second.
DrivePoll == 3

\* What one bootloader entry is called with: the function whose loop runs,
\* whether the port's serial number was recorded, which block device is
\* the port's own (0: none of them) and whether sysfs gives serial numbers.
EntryCalls ==
    [path : {"trigger_bootloader", "upload_parallel"}, sn : BOOLEAN,
     own : 0..MaxBlockDevices, readable : BOOLEAN]

\* A call of one device-phase function, with what it observes.  tracked
\* tells whether verify_reboot was given a serial number or a port.
PhaseCalls ==
    {[fn |-> "mount_with_udisksctl", obs |-> o] : o \in UdisksObservations}
    \cup {[fn |-> "mount_manually", obs |-> o] : o \in ManualObservations}
    \cup {[fn |-> "mount_device", obs |-> o] : o \in DeviceMountObservations}
    \cup {[fn |-> "mount_uf2_drive", obs |-> o] : o \in MountObservations}
    \cup {[fn |-> "copy_firmware", obs |-> o] : o \in CopyOutcomes}
    \cup {[fn |-> "verify_reboot", obs |-> [tracked |-> t]] : t \in BOOLEAN}
    \cup [fn : {"trigger_bootloader", "upload_parallel"},
          obs : [a : 1..MAX_BOOTLOADER_RETRIES, sn : BOOLEAN, hub : BOOLEAN,
                 o : Observations]]
    \cup {[fn |-> "bootloader_entry", obs |-> o] : o \in EntryCalls}
    \cup {[fn |-> "find_uf2_block_device",
           obs |-> [timeout |-> BOOTLOADER_TIMEOUT]]}
    \cup {[fn |-> "_recover_usb_port", obs |-> [sn |-> sn]] : sn \in BOOLEAN}

InitPhase ==
    /\ call \in PhaseCalls
    /\ returned = Idle
    /\ ValidateUnused
    /\ ParseUnused
    /\ MainUnused

\* mount_point = mount_with_udisksctl(block_dev), and the like.
CallMount ==
    /\ returned = Idle
    /\ call.fn \in {"mount_with_udisksctl", "mount_manually", "mount_device",
                    "mount_uf2_drive"}
    /\ returned' = CASE call.fn = "mount_with_udisksctl" ->
                          mount_with_udisksctl(call.obs)
                     [] call.fn = "mount_manually" -> mount_manually(call.obs)
                     [] call.fn = "mount_device" -> mount_device(call.obs)
                     [] OTHER -> mount_uf2_drive(call.obs)
    /\ UNCHANGED <<valVars, parseVars, mainVars, call>>

\* One pass of the retry loop of trigger_bootloader or of upload_parallel:
\* a is the attempt, sn and hub tell whether the serial number and the hub
\* location were read before the loop.
CallPass ==
    /\ returned = Idle
    /\ call.fn \in {"trigger_bootloader", "upload_parallel"}
    /\ returned' = IF call.fn = "trigger_bootloader"
                    THEN EntryPass(call.obs.a, call.obs.sn, call.obs.hub,
                                   call.obs.o)
                    ELSE ParEntryPass(call.obs.a, call.obs.sn, call.obs.hub,
                                      call.obs.o)
    /\ UNCHANGED <<valVars, parseVars, mainVars, call>>

\* copy_firmware(uf2_path, mount_point)
CallCopy ==
    /\ returned = Idle
    /\ call.fn = "copy_firmware"
    /\ returned' = copy_firmware(call.obs)
    /\ UNCHANGED <<valVars, parseVars, mainVars, call>>

Waiting(stage, now, deadline) ==
    [kind |-> "waiting", stage |-> stage, now |-> now, deadline |-> deadline]

\* verify_reboot returns in the given stage at the given time.
Returned(wait, drive_gone, port_back) ==
    [kind |-> "returned", ok |-> verify_reboot(drive_gone, port_back),
     drive_gone |-> drive_gone, port_back |-> port_back,
     stage |-> wait.stage, now |-> wait.now, deadline |-> wait.deadline]

\* verify_reboot, lines 1049-1051.
VerifyStart ==
    /\ returned = Idle
    /\ call.fn = "verify_reboot"
    /\ returned' = Waiting(1, 0, REBOOT_TIMEOUT * PollsPerSecond)
    /\ UNCHANGED <<valVars, parseVars, mainVars, call>>

\* verify_reboot, lines 1053-1063: one turn of the first loop, or the
\* return that follows it when the marker was never seen missing.
WaitForDrive ==
    /\ call.fn = "verify_reboot"
    /\ returned.kind = "waiting"
    /\ returned.stage = 1
    /\ UNCHANGED <<valVars, parseVars, mainVars, call>>
    /\ IF returned.now < returned.deadline
       THEN \E marker \in BOOLEAN, sleep \in 1..MaxSleep :
               returned' =
                   IF ~marker
                   THEN Waiting(2, returned.now,
                                returned.now
                                + PORT_REAPPEAR_TIMEOUT * PollsPerSecond)
                   ELSE [returned EXCEPT !.now = time_sleep(@, sleep)]
       ELSE returned' = Returned(returned, FALSE, FALSE)

\* verify_reboot, lines 1065-1084: one turn of the second loop, or the
\* return that follows it.
WaitForPort ==
    /\ call.fn = "verify_reboot"
    /\ returned.kind = "waiting"
    /\ returned.stage = 2
    /\ UNCHANGED <<valVars, parseVars, mainVars, call>>
    /\ IF returned.now < returned.deadline
       THEN \E back \in {call.obs.tracked, FALSE}, sleep \in 1..MaxSleep :
               returned' = IF back THEN Returned(returned, TRUE, TRUE)
                           ELSE [returned EXCEPT !.now = time_sleep(@, sleep)]
       ELSE returned' = Returned(returned, TRUE, FALSE)

\* A snapshot that is taken once and never again.
pre_existing_blocks_once(path, pre, current) == pre

\* The snapshot a retry pass starts with: trigger_bootloader line 518 takes
\* a new one, upload_parallel keeps the one of line 1396.
pre_existing_blocks(path, pre, current) ==
    IF path = "trigger_bootloader" THEN current ELSE pre

\* new_devices = current - pre_existing_blocks
new_devices(current, pre) == current \ pre

\* sorted(new_devices)[0]
FirstOf(devices) == CHOOSE d \in devices : \A e \in devices : d <= e

\* _get_block_device_serial(block_dev), as against the port's serial number.
_get_block_device_serial(block_dev, own, readable) ==
    IF ~readable THEN "none"
    ELSE IF block_dev = own THEN "expected" ELSE "other"

\* upload_parallel, lines 1457-1470 and 1511-1515: what is done with the
\* new block device.  Only the command's wait compares serial numbers, and
\* a difference is printed, nothing more.
AssignBlockDev(o, stage, new_dev) ==
    LET block_sn == _get_block_device_serial(new_dev, o.own, o.readable)
    IN  [block_dev |-> new_dev,
         warning |-> /\ stage = "command"
                     /\ o.sn
                     /\ block_sn = "other"]

\* The retry loop between two scans.  pre is the snapshot the loop holds,
\* seen the block devices that were there when the last snapshot was due:
\* at the device's start, at the 1200 baud touch and, in trigger_bootloader,
\* at the start of the pass.
Entering(attempt, stage, now, pre, seen) ==
    [kind |-> "entering", attempt |-> attempt, stage |-> stage, now |-> now,
     pre |-> pre, seen |-> seen]

\* The loop is left with a new block device.
Entered(loop, current) ==
    LET found == new_devices(current, loop.pre)
        took == AssignBlockDev(call.obs, loop.stage, FirstOf(found))
    IN  [kind |-> "entered", attempt |-> loop.attempt, stage |-> loop.stage,
         now |-> loop.now, pre |-> loop.pre, seen |-> loop.seen,
         current |-> current, found |-> found, block_dev |-> took.block_dev,
         warning |-> took.warning]

\* The pass is over without a new block device: the next one, or the end
\* of the loop.
NextAttempt(loop) ==
    IF loop.attempt < MAX_BOOTLOADER_RETRIES
    THEN Entering(loop.attempt + 1, "pass", 0, loop.pre, loop.seen)
    ELSE [kind |-> "not entered", attempt |-> loop.attempt,
          stage |-> loop.stage, now |-> loop.now, pre |-> loop.pre,
          seen |-> loop.seen]

\* Before the loop: upload_parallel line 1396 takes the device's snapshot,
\* trigger_bootloader has none yet.
EntryStart ==
    /\ returned = Idle
    /\ call.fn = "bootloader_entry"
    /\ \E current \in SUBSET BlockDevs :
          LET pre == IF call.obs.path = "upload_parallel"
                     THEN current ELSE {}
          IN  returned' = Entering(1, "pass", 0, pre, pre)
    /\ UNCHANGED <<valVars, parseVars, mainVars, call>>

\* One pass up to its wait: trigger_bootloader lines 492-533,
\* upload_parallel lines 1402-1443.  A retry that cannot find the device
\* again goes on to the next pass; trigger_bootloader skips the wait when
\* the port cannot be opened.
EntryCommand ==
    /\ call.fn = "bootloader_entry"
    /\ returned.kind = "entering"
    /\ returned.stage = "pass"
    /\ UNCHANGED <<valVars, parseVars, mainVars, call>>
    /\ \E lost \in {returned.attempt > 1, FALSE}, sent \in BOOLEAN,
          current \in SUBSET BlockDevs :
          LET single == call.obs.path = "trigger_bootloader"
              pre == pre_existing_blocks(call.obs.path, returned.pre, current)
              seen == IF single THEN current ELSE returned.seen
              loop == Entering(returned.attempt, "command", 0, pre, seen)
          IN  returned' =
                  IF lost THEN NextAttempt(returned)
                  ELSE IF sent \/ ~single THEN loop
                  ELSE IF returned.attempt = 1
                  THEN [loop EXCEPT !.stage = "touch"]
                  ELSE NextAttempt([loop EXCEPT !.stage = "pass"])

\* The 1200 baud touch of the first pass up to its wait:
\* trigger_bootloader lines 559-581, upload_parallel lines 1480-1500.
EntryTouch ==
    /\ call.fn = "bootloader_entry"
    /\ returned.kind = "entering"
    /\ returned.stage = "touch"
    /\ UNCHANGED <<valVars, parseVars, mainVars, call>>
    /\ \E opened \in BOOLEAN, current \in SUBSET BlockDevs :
          LET loop == Entering(returned.attempt, "touch", 0, current,
                               current)
          IN  returned' = IF opened THEN [loop EXCEPT !.stage = "touched"]
                          ELSE NextAttempt(loop)

\* One turn of a wait, or what follows the wait that ran out:
\* _wait_for_uf2_drive lines 607-618 with trigger_bootloader lines 535-545
\* and 583-584, upload_parallel lines 1447-1477 and 1502-1516.
EntryWait ==
    /\ call.fn = "bootloader_entry"
    /\ returned.kind = "entering"
    /\ returned.stage \in {"command", "touched"}
    /\ UNCHANGED <<valVars, parseVars, mainVars, call>>
    /\ IF returned.now < DriveTimeout
       THEN \E current \in SUBSET BlockDevs, sleep \in 1..MaxSleep :
               returned' =
                   IF new_devices(current, returned.pre) # {}
                   THEN Entered(returned, current)
                   ELSE [returned EXCEPT
                            !.now = time_sleep(@, sleep * DrivePoll)]
       ELSE \E gone \in BOOLEAN :
               returned' =
                   IF returned.stage = "command" /\ ~gone
                      /\ returned.attempt = 1
                   THEN [returned EXCEPT !.stage = "touch"]
                   ELSE NextAttempt(returned)

\* What a wait for a block device or for a port gives back: the device or
\* port it found, 0 for None.
Found(wait, value) ==
    [kind |-> "returned", value |-> value, now |-> wait.now,
     deadline |-> wait.deadline]

\* find_uf2_block_device, lines 666-673: the first scan.
ScanStart ==
    /\ returned = Idle
    /\ call.fn = "find_uf2_block_device"
    /\ UNCHANGED <<valVars, parseVars, mainVars, call>>
    /\ \E initial \in SUBSET BlockDevs :
          LET wait == Waiting(1, 0, call.obs.timeout * PollsPerSecond)
          IN  returned' = IF initial # {}
                          THEN Found(wait, FirstOf(initial)) ELSE wait

\* find_uf2_block_device, lines 674-682: one turn of the loop, or the
\* return None that follows it.
ScanPoll ==
    /\ call.fn = "find_uf2_block_device"
    /\ returned.kind = "waiting"
    /\ UNCHANGED <<valVars, parseVars, mainVars, call>>
    /\ IF returned.now < returned.deadline
       THEN \E current \in SUBSET BlockDevs, sleep \in 1..MaxSleep :
               returned' =
                   IF current # {} THEN Found(returned, FirstOf(current))
                   ELSE [returned EXCEPT !.now = time_sleep(@, sleep)]
       ELSE returned' = Found(returned, 0)

\* _recover_usb_port, line 363, after the port was powered off and on.
RecoverStart ==
    /\ returned = Idle
    /\ call.fn = "_recover_usb_port"
    /\ returned' = Waiting(1, 0, RecoverTimeout * PollsPerSecond)
    /\ UNCHANGED <<valVars, parseVars, mainVars, call>>

\* _recover_usb_port, lines 364-381: one turn of the loop, which sleeps
\* before it looks, or the return None that follows it.  Without a serial
\* number any XIAO port counts.
RecoverPoll ==
    /\ call.fn = "_recover_usb_port"
    /\ returned.kind = "waiting"
    /\ UNCHANGED <<valVars, parseVars, mainVars, call>>
    /\ IF returned.now < returned.deadline
       THEN \E new_port \in 0..1, sleep \in 1..MaxSleep :
               LET wait == [returned EXCEPT !.now = time_sleep(@, sleep)]
               IN  returned' = IF new_port # 0 THEN Found(wait, new_port)
                               ELSE wait
       ELSE returned' = Found(returned, 0)

NextPhase ==
    \/ CallPass
    \/ CallMount
    \/ CallCopy
    \/ VerifyStart
    \/ WaitForDrive
    \/ WaitForPort
    \/ EntryStart
    \/ EntryCommand
    \/ EntryTouch
    \/ EntryWait
    \/ ScanStart
    \/ ScanPoll
    \/ RecoverStart
    \/ RecoverPoll

SpecPhase == InitPhase /\ [][NextPhase]_vars

\* The interpreter keeps running the function it is in.
SpecPhaseLive == SpecPhase /\ WF_vars(NextPhase)

\* ========================================================================
\* Properties of the uploader run (Spec)
\* ========================================================================
\* parse_intel_hex was called on the image and left with an exception.
ParseFailed == parsed.kind \in {"HexValidationError", "ValueError"}

\* validate_safety was called on the image and found a critical failure.
CriticalReport == safety.kind = "SafetyError"

\* The actions of the device phases that C1 names.
DeviceActs ==
    {"command", "toggle", "udisksctl mount", "sudo mount", "copy", "sync"}

Performed(acts) == {e \in hw : e.act \in acts}

\* C1: in a run that validates the image (no --skip-validation, no --uf2),
\* once the image has failed to parse or its safety report holds a critical
\* finding, no bootloader command, toggle, mount or copy has been performed
\* on any port, conversion has not run, and the run has ended with exit
\* status 1.
C1_FailedValidationTouchesNothing ==
    (Validates(args) /\ (ParseFailed \/ CriticalReport)) =>
        /\ Performed(DeviceActs) = {}
        /\ conversion = "not run"
        /\ pc = "done"
        /\ exit_status = 1

\* The image that writes at 0x10 was validated for "uf2_upload.py
\* /dev/ttyACM0": SafetyError, and the run is over with status 1.
C1_Witness ==
    /\ args = DefaultArgs
    /\ records = CriticalImage
    /\ CriticalReport
    /\ pc = "done"
    /\ exit_status = 1
    /\ failure = "SAFETY VALIDATION FAILED - Upload blocked"

\* validate_safety returned a report in which some finding failed.
WarningsOnly ==
    /\ safety.kind = "ok"
    /\ \E i \in 1..Len(safety.returned) : ~safety.returned[i].passed

\* C6: a run whose safety report holds warnings but no critical finding is
\* not aborted at validation.
C6_WarningsDoNotBlock ==
    (Validates(args) /\ WarningsOnly) =>
        failure # "SAFETY VALIDATION FAILED - Upload blocked"

\* The hardware actions of acts performed on one port.
PerformedOn(port, acts) == {e \in hw : e.port = port /\ e.act \in acts}

\* upload_parallel is the strategy of the run: main(), line 1721.
Staggered == args.parallel /\ Len(ports) > 1

\* The entries of the result list for one port.
ResultsFor(port) == {k \in 1..Len(results) : results[k].port = port}

\* C11: a port that pre-flight found absent, with another identity or
\* locked by another process never gets a bootloader command, a toggle or
\* a power-cycle; on the sequential path its failure is recorded at once,
\* on the staggered path every result made for it is a failure.
C11_UnavailablePortIsNeverReset ==
    \A e \in hw :
        e.act \in Unavailable =>
            /\ PerformedOn(e.port, {"command", "toggle", "power-cycle"}) = {}
            /\ \A k \in ResultsFor(e.port) : ~results[k].ok
            /\ ~Staggered => ResultsFor(e.port) # {}
            /\ (Staggered /\ results # <<>>) => ResultsFor(e.port) # {}

\* Two ports, one after the other: the first was locked by another process
\* and is reported failed, the second was sent the bootloader command.
C11_Witness ==
    /\ ~Staggered
    /\ ports = <<PortA, PortB>>
    /\ Event(PortA, "busy") \in hw
    /\ Event(PortB, "command") \in hw
    /\ pc = "done"
    /\ ~results[1].ok

\* The run was ended by Ctrl-C.
Cancelled == failure = "Upload cancelled"

\* The retry loop of bootloader entry is running for the current device.
InEntryLoop == pc \in {"attempt", "par_attempt"}

\* C12: for the device being handled the attempt counter never exceeds
\* MAX_BOOTLOADER_RETRIES, at most that many bootloader commands have been
\* sent to it (never more than the passes made), and once the loop is left
\* the procedure is Entered, or Failed after the last attempt, unless Ctrl-C
\* ended the run inside the loop; the bound on the commands goes on holding
\* through the later phases of the device.
C12_AtMostThreeAttempts ==
    /\ dev.attempt <= MAX_BOOTLOADER_RETRIES
    /\ dev.commands <= MAX_BOOTLOADER_RETRIES
    /\ dev.commands <= dev.attempt
    /\ InEntryLoop => dev.commands < dev.attempt /\ ~dev.entered
    /\ (dev.attempt >= 1 /\ ~InEntryLoop /\ ~Cancelled) =>
          dev.entered \/ dev.attempt = MAX_BOOTLOADER_RETRIES

\* Three passes, a command sent in each, no drive: entry has failed.
C12_Witness ==
    /\ pc = "seq_next"
    /\ dev.attempt = MAX_BOOTLOADER_RETRIES
    /\ dev.commands = MAX_BOOTLOADER_RETRIES
    /\ ~dev.entered
    /\ results # <<>>
    /\ ~results[Len(results)].ok

\* C13: on the single-device path, a device for which a new block device
\* appeared during an attempt is not reported "bootloader entry failed",
\* whether or not its serial number could be read.
C13_DriveAppearedMeansEntered ==
    (~Staggered /\ pc = "seq_next" /\ dev.entered) =>
        results[Len(results)].msg # "bootloader entry failed"

\* A call of one of the three mount operations has returned.
MountCallDone ==
    /\ call # Idle
    /\ returned # Idle
    /\ call.fn \in {"mount_with_udisksctl", "mount_manually", "mount_device"}

\* The marker file is at the mount point the call returned.
MarkerAtPoint ==
    CASE returned.point = "existing" /\ call.fn = "mount_with_udisksctl" ->
            call.obs.existing
      [] call.fn = "mount_with_udisksctl" -> call.obs.path /\ call.obs.marker
      [] OTHER -> call.obs.marker

\* The call issued an unmount.
Unmounted ==
    \E k \in 1..Len(returned.acts) :
        returned.acts[k] \in {"sudo umount", "udisksctl unmount"}

\* C14: udisksctl mount, manual mount and per-device mount return a mount
\* point only if the marker file is there, and when the mount command
\* succeeded and the marker is absent they unmount the volume again and
\* return no mount point.
C14_MountOnlyVerifiedVolumes ==
    MountCallDone =>
        /\ returned.kind = "ok" => MarkerAtPoint
        /\ (call.obs.run = "ok" /\ ~call.obs.marker) =>
              (returned.kind # "ok" /\ Unmounted)

\* A call of copy_firmware has returned.
CopyCallDone ==
    /\ call # Idle
    /\ returned # Idle
    /\ call.fn = "copy_firmware"

\* C15: copy_firmware writes nothing and returns failure when the marker
\* file is missing; it returns success only after the copy and then the
\* sync; a failed copy is returned as failure.
C15_CopyRefusesUnmarkedVolume ==
    CopyCallDone =>
        /\ returned.ok \in BOOLEAN
        /\ call.obs = "no marker" => (returned.acts = <<>> /\ ~returned.ok)
        /\ returned.ok => returned.acts = <<"copy", "sync">>
        /\ call.obs = "copy error" => ~returned.ok

C15_Witness ==
    /\ CopyCallDone
    /\ call.obs = "no marker"
    /\ returned = [ok |-> FALSE, acts |-> <<>>]

\* A call of verify_reboot has returned.
VerifyCallDone ==
    /\ call # Idle
    /\ call.fn = "verify_reboot"
    /\ returned.kind = "returned"

\* What verify_reboot may return: failure at the end of the first wait
\* with the marker still there and the second wait never begun, success
\* once the marker was seen missing before that.
VerifyOutcome ==
    VerifyCallDone =>
        IF returned.drive_gone
        THEN /\ returned.ok
             /\ returned.stage = 2
             /\ returned.port_back \in BOOLEAN
        ELSE /\ ~returned.ok
             /\ returned.stage = 1
             /\ returned.now >= REBOOT_TIMEOUT * PollsPerSecond

\* C16: verify_reboot always returns; it returns failure when the marker
\* file is still there at the end of the first wait, without beginning the
\* second wait, and success when the marker went missing during the first
\* wait, whether or not the port came back during the second.
C16_VerifyRebootTerminates ==
    /\ []VerifyOutcome
    /\ (call.fn = "verify_reboot") ~> VerifyCallDone

\* Qualified success: the marker went missing, the port never came back.
C16_Witness ==
    /\ VerifyCallDone
    /\ returned.ok
    /\ returned.drive_gone
    /\ ~returned.port_back
    /\ returned.now >= returned.deadline

\* The run is over, had taken up its devices one by one and was not
\* cancelled.
DevicesRunOver == pc = "done" /\ dev.i >= 1 /\ ~Cancelled

\* C17: a multi-device run that reached the device phases ends with one
\* result per requested port, in the order of the ports, under the
\* sequential and the staggered strategy alike.
C17_OneResultPerPortInOrder ==
    (DevicesRunOver /\ Len(ports) > 1) =>
        /\ Len(results) = Len(ports)
        /\ \A k \in 1..Len(ports) : results[k].port = ports[k]

\* C18: in a multi-device run no failure of one device, a mount command
\* that times out included, ends the run before the last device was taken
\* up.
C18_FailureDoesNotHaltOthers ==
    (DevicesRunOver /\ Len(ports) > 1) => dev.i = Len(ports)

\* C19: the exit status is 0 exactly when every requested device has a
\* result and every result is a success; otherwise it is not 0.
C19_ExitZeroIffAllSucceeded ==
    DevicesRunOver =>
        /\ exit_status = 0 <=>
              /\ Len(results) = Len(ports)
              /\ \A k \in 1..Len(results) : results[k].ok
        /\ exit_status >= 0

\* Two devices, one flashed and one failed: the run exits non-zero.
C19_Witness ==
    /\ DevicesRunOver
    /\ Len(results) = 2
    /\ \E k \in 1..2 : results[k].ok
    /\ \E k \in 1..2 : ~results[k].ok
    /\ exit_status = 1

\* Every port reported failed, as upload_parallel reports them when no
\* drive could be mounted (line 1535).
AllFailed == [k \in 1..Len(ports) |-> Result(ports[k], FALSE, "mount failed")]

\* C20: a multi-device run in which some devices succeeded and some failed
\* never exits with the status of a run in which every device failed.
C20_PartialDistinctFromTotal ==
    (DevicesRunOver /\ Len(results) > 1 /\ AnyOk(results) /\ ~AllOk(results))
        => exit_status # ExitStatus(AllFailed)

\* C24: the exit status follows the documented mapping: 2 whenever the
\* image or the pre-converted image is missing, 3 whenever the run of one
\* device failed because a bounded wait expired, and no status other than
\* 0, 1, 2, 3 and 130, with 130 for the run that was cancelled.
C24_ExitStatusMapping ==
    pc = "done" =>
        /\ exit_status \in {0, 1, 2, 3, 130}
        /\ failure \in {"ERROR: UF2 file not found", "ERROR: No hex file found"}
              => exit_status = 2
        /\ failure = "TIMEOUT" => exit_status = 3
        /\ Cancelled <=> exit_status = 130
        /\ (Len(results) = 1 /\ results[1].msg = "timeout" /\ ~Cancelled)
              => exit_status = 3

\* C25: a dry run stays within locating, validating and converting the
\* image: nothing is sent to, mounted for, copied to or awaited from any
\* device, and it exits 0 once validation and conversion succeeded, unless
\* it was cancelled.
C25_DryRunTouchesNothing ==
    (pc # "off" /\ args.dry_run) =>
        /\ pc \in {"start", "phase12", "convert", "dispatch", "done"}
        /\ \A e \in hw : e.act = "cleanup_stale_mounts"
        /\ results = <<>>
        /\ (pc = "done" /\ conversion = "ok" /\ ~Cancelled) => exit_status = 0

C25_Witness ==
    /\ pc = "done"
    /\ args.dry_run
    /\ ports = <<PortA>>
    /\ conversion = "ok"
    /\ safety.kind = "ok"
    /\ hw = {}
    /\ exit_status = 0

\* What bootloader entry and mounting do to a device.
EntryOrMount ==
    {"command", "toggle", "power-cycle", "udisksctl mount", "sudo mount"}

\* C26: in every run that reaches the device phases the stale mount points
\* of earlier runs have been released before the first bootloader-entry
\* attempt or mount.
C26_StaleMountsReleasedFirst ==
    (\E e \in hw : e.act \in EntryOrMount)
        => Event("", "cleanup_stale_mounts") \in hw

\* One pass of a bootloader-entry loop has been made.
PassDone ==
    /\ call # Idle
    /\ returned # Idle
    /\ call.fn \in {"trigger_bootloader", "upload_parallel"}

Toggles(acts) == Len(SelectSeq(acts, LAMBDA act : act = "toggle"))

\* C27: a pass of bootloader entry toggles at 1200 baud at most once and
\* only on attempt 1, as its last action, after the wait that follows the
\* command showed no new block device, on a port that is still there; the
\* passes of attempts 2 and 3 hold nothing but the recovery and the command.
C27_ToggleOnlyOnFirstAttempt ==
    PassDone =>
        /\ Toggles(returned.events) <= 1
        /\ Toggles(returned.events) = 1 =>
              /\ call.obs.a = 1
              /\ returned.events[Len(returned.events)] = "toggle"
              /\ ~call.obs.o.drive1
              /\ ~call.obs.o.gone_after
              /\ returned.entered = call.obs.o.drive2
        /\ call.obs.a > 1 =>
              \A k \in 1..Len(returned.events) :
                  returned.events[k] \in {"power-cycle", "command"}

\* The command of attempt 1 brought no drive and the toggle did.
C27_Witness ==
    /\ PassDone
    /\ call.obs.a = 1
    /\ returned.events = <<"command", "toggle">>
    /\ returned.entered

\* The pass began with a power-cycle of the device's USB port.
PowerCycled == returned.events # <<>> /\ returned.events[1] = "power-cycle"

\* C28: on an attempt after the first, for a device whose port is gone and
\* that cannot be found again by its serial number, the USB port is
\* power-cycled when the hub location is known, with or without a serial
\* number; attempt 1 never power-cycles, and a pass whose recovery failed
\* sends no command.
C28_RecoveryOnLaterAttempts ==
    PassDone =>
        /\ (call.obs.a > 1 /\ call.obs.o.gone /\ ~call.obs.o.rediscovered
            /\ call.obs.hub)
              => PowerCycled
        /\ call.obs.a = 1 => ~PowerCycled
        /\ (PowerCycled /\ ~call.obs.o.recovered)
              => returned.events = <<"power-cycle">>

\* What resets a device.
Resets == {"command", "toggle", "power-cycle"}

WasReset(port) == \E e \in hw : e.port = port /\ e.act \in Resets

\* The serial number and the hub location of the port have been read.
Recorded(port) ==
    \A e \in {Event(port, "get_serial_number"),
              Event(port, "_find_usb_hub_port")} : e \in hw

\* No device is reset before its identity was read, and under the
\* staggered strategy none before the identity of every port was read.
IdentityBeforeReset ==
    \A k \in 1..Len(ports) :
        WasReset(ports[k]) =>
            /\ Recorded(ports[k])
            /\ Staggered => \A j \in 1..Len(ports) : Recorded(ports[j])

\* The device in hand keeps the serial number and the hub location it had
\* when it was first reset, for as long as it is in hand; the table of the
\* staggered strategy keeps what its first phase wrote.
IdentityKept ==
    /\ (/\ dev.i \in 1..Len(ports)
        /\ WasReset(ports[dev.i])
        /\ pc \in {"attempt", "par_attempt"}
        /\ pc' \in {"attempt", "mount", "par_attempt", "par_mount"})
          => (dev'.serial = dev.serial /\ dev'.hub = dev.hub)
    /\ (pc \in {"par_next", "par_attempt", "par_mount", "par_copy",
                "par_unmount", "par_verify"})
          => \A k \in 1..Len(mount_map) :
                /\ mount_map'[k].serial = mount_map[k].serial
                /\ mount_map'[k].hub = mount_map[k].hub

\* C29: the serial number and the hub location of a device are read before
\* the first command, toggle or power-cycle reaches it and stay as read
\* afterwards; under the staggered strategy they are read for every port
\* before any device is reset.
C29_IdentityReadBeforeReset ==
    /\ []IdentityBeforeReset
    /\ [][IdentityKept]_vars

\* The second device of a staggered run is being reset.
C29_Witness ==
    /\ Staggered
    /\ pc = "par_attempt"
    /\ dev.i = 2
    /\ WasReset(PortA)
    /\ WasReset(PortB)
    /\ Recorded(PortB)

\* The firmware was written, or its writing was begun, on the volume taken
\* for the port.
CopiedTo(port) == Event(port, "copy") \in hw

\* The messages of a device that got as far as the copy.
ReachedCopy == {"OK", "firmware copy failed", "reboot verification failed"}

\* Bootloader entry succeeded for ports[k] and a mount point with the
\* marker file was obtained for it.
ReadyForCopy(k) ==
    IF Staggered
    THEN /\ k <= Len(mount_map)
         /\ mount_map[k].block_dev
         /\ mount_map[k].mount_point
    ELSE IF k <= Len(results)
    THEN results[k].msg \in ReachedCopy
    ELSE k = dev.i /\ dev.entered /\ dev.mount # "none"

\* The phases that come after the one a message reports as failed.
LaterPhases(msg) ==
    CASE msg = "bootloader entry failed" ->
            {"udisksctl mount", "sudo mount", "copy", "verify_reboot"}
      [] msg \in {"timeout", "error"} -> {"copy", "verify_reboot"}
      [] msg = "firmware copy failed" -> {"verify_reboot"}
      [] OTHER -> {}

\* C30: when the device phases run, a port gets a firmware copy only after
\* its bootloader entry succeeded and a mount point with the marker file was
\* obtained for it; a port reported failed at pre-flight, entry or mount got
\* no copy; and on the one-by-one path no phase after the failed one acted
\* on the port.
C30_CopyOnlyAfterEntryAndMount ==
    ~args.already_in_bootloader =>
        /\ \A k \in 1..Len(ports) : CopiedTo(ports[k]) => ReadyForCopy(k)
        /\ \A k \in 1..Len(results) :
              results[k].msg \in {"failed to enter bootloader", "mount failed",
                                  "bootloader entry failed", "timeout",
                                  "error"}
                  => ~CopiedTo(results[k].port)
        /\ ~Staggered =>
              \A k \in 1..Len(results) :
                  PerformedOn(results[k].port, LaterPhases(results[k].msg))
                      = {}

\* Two ports one by one: the mount of the first failed and it got no copy,
\* the second got the firmware.
C30_Witness ==
    /\ ~args.already_in_bootloader
    /\ ~Staggered
    /\ ports = <<PortA, PortB>>
    /\ results # <<>>
    /\ results[1].msg = "error"
    /\ ~CopiedTo(PortA)
    /\ CopiedTo(PortB)

\* Two staggered ports: only the second was mounted, and only it got the
\* firmware.
C30_WitnessStaggered ==
    /\ Staggered
    /\ Len(mount_map) = 2
    /\ mount_map[1].block_dev
    /\ ~mount_map[1].mount_point
    /\ ~CopiedTo(PortA)
    /\ CopiedTo(PortB)

\* C23: the mount point a device of the run uses holds a volume of that
\* device, never the volume of another device of the run.
C23_OwnVolumeOnly ==
    (dev.i >= 1 /\ dev.mount # "none") => dev.volume = dev.i

\* The mount points a run makes for itself: by udisksctl under /run/media,
\* by "sudo mount" on /mnt/uf2-upload.
MadeByRun == {"/run/media", "/mnt/uf2-upload"}

\* The commands that release a mount point.
Releases == {"sudo umount", "umount -l", "udisksctl unmount"}

\* C21: when the run is over, every mount point it made has been released,
\* and released by one unmount command only: the mount point of the device
\* taken up last on the one-by-one path, the mount point of every device on
\* the staggered path.
C21_EveryMountReleasedOnce ==
    pc = "done" =>
        /\ (~Staggered /\ dev.i >= 1 /\ dev.mount \in MadeByRun) =>
              \/ PerformedOn(ports[dev.i], Releases) # {}
              \/ /\ dev.mount = "/mnt/uf2-upload"
                 /\ Event("", "cleanup_stale_mounts") \in hw
        /\ Staggered =>
              \A k \in 1..Len(mount_map) :
                  mount_map[k].mount_point =>
                      Cardinality(PerformedOn(ports[k], Releases)) = 1

\* C22: a run ended by Ctrl-C has exit status 130, and the mount point it
\* had made for the device in hand, by udisksctl or by "sudo mount", has
\* been released.
C22_InterruptReleasesMounts ==
    (pc = "done" /\ Cancelled) =>
        /\ exit_status = 130
        /\ (dev.i >= 1 /\ dev.mount \in MadeByRun) =>
              PerformedOn(ports[dev.i], Releases) # {}

\* Conversion or a device phase has begun.
PastValidation ==
    \/ pc \notin {"off", "start", "phase12", "done"}
    \/ conversion # "not run"
    \/ Performed(DeviceActs) # {}

\* C37: in a run that was not told to skip validation and was given no
\* pre-converted image, conversion and the device phases begin only after
\* the validator read the image and returned a report without a failed
\* finding.
C37_ValidatedUnlessAskedNotTo ==
    (Validates(args) /\ PastValidation) =>
        /\ parsed # Idle
        /\ parsed.kind = "ok"
        /\ safety.kind = "ok"
        /\ \A k \in 1..Len(safety.returned) : safety.returned[k].passed

\* C31: in a staggered run a device whose copy succeeded is judged as
\* verify_reboot judges it on the one-by-one path: its drive was unmounted
\* and is gone, so it is a success, qualified when its port did not come
\* back within the timeout.
C31_StaggeredJudgedAsSingle ==
    (Staggered /\ DevicesRunOver /\ Len(results) = Len(ports)) =>
        \A k \in 1..Len(ports) :
            mount_map[k].copied =>
                results[k].ok = verify_reboot(TRUE, results[k].msg = "OK")

\* Something was done to, or found about, the port.
Touched(port) == \E e \in hw : e.port = port

\* C32: on the one-by-one path the devices are taken up in the order of the
\* ports, each after the result of the one before it was recorded: nothing
\* has been done to a port before all earlier ports have their results, and
\* the settle delay was taken before a device exactly when there is a
\* device before it whose result is a success.
C32_OneAtATimeWithSettle ==
    (pc # "off" /\ ~Staggered /\ ~args.already_in_bootloader) =>
        /\ \A k \in 1..Len(results) : results[k].port = ports[k]
        /\ \A k \in 1..Len(ports) :
              /\ Touched(ports[k]) => (dev.i >= k /\ Len(results) >= k - 1)
              /\ dev.i >= k =>
                    (Event(ports[k], "settle") \in hw
                        <=> (k > 1 /\ results[k - 1].ok))

\* The first of two devices succeeded: the delay was taken before the
\* second, which has its result too.
C32_Witness ==
    /\ ~Staggered
    /\ ports = <<PortA, PortB>>
    /\ Len(results) = 2
    /\ results[1].ok
    /\ Event(PortB, "settle") \in hw
    /\ Event(PortB, "command") \in hw

\* The first of two devices failed: the second was taken up without delay.
C32_WitnessNoDelay ==
    /\ ~Staggered
    /\ ports = <<PortA, PortB>>
    /\ Len(results) = 2
    /\ ~results[1].ok
    /\ Event(PortB, "settle") \notin hw
    /\ Event(PortB, "command") \in hw

\* The firmware copy of the staggered run has begun for some port.
CopyBegun(events) == \E e \in events : e.act = "copy"

\* The ports of the staggered run that have a mount point.
MountedPorts == {k \in 1..Len(mount_map) : mount_map[k].mount_point}

\* The unmount of phase 4 was issued for ports[k].
UnmountedInPhase4(events, k) == Event(ports[k], "sudo umount") \in events

Verifying(events) == Event("", "verify reboots") \in events

\* The run went through upload_parallel to its return.
StaggeredRunOver ==
    /\ Staggered
    /\ pc = "done"
    /\ dev.i >= 1
    /\ ~Cancelled
    /\ failure # "Traceback: TimeoutExpired"

\* What holds of a staggered run in every state.
PhasesInOrder ==
    (pc # "off" /\ Staggered) =>
        /\ \A k \in 2..Len(ports) :
              PerformedOn(ports[k], Resets) # {} =>
                  /\ Event(ports[k], "stagger") \in hw
                  /\ dev.i >= k
        /\ CopyBegun(hw) =>
              /\ dev.i = Len(ports)
              /\ pc \in {"par_unmount", "par_verify", "done"}
        /\ \A k \in MountedPorts :
              UnmountedInPhase4(hw, k) =>
                  pc \in {"par_verify", "done"}
        /\ Verifying(hw) =>
              /\ pc = "done"
              /\ MountedPorts # {}
              /\ \A k \in MountedPorts : UnmountedInPhase4(hw, k)
        /\ (StaggeredRunOver /\ MountedPorts = {}) =>
              /\ ~CopyBegun(hw)
              /\ ~Verifying(hw)
              /\ \A k \in 1..Len(ports) :
                    ~mount_map[k].block_dev =>
                        PerformedOn(ports[k], Releases) = {}
              /\ Len(results) = Len(ports)
              /\ \A k \in 1..Len(results) : ~results[k].ok

\* What holds of every step of a staggered run: the copies are made in one
\* phase, before any unmount of a mounted drive and before the
\* verification; the unmounts are made before the verification.
PhasesInOrderStep ==
    (pc # "off" /\ Staggered) =>
        /\ CopyBegun(hw' \ hw) =>
              /\ pc = "par_copy"
              /\ ~Verifying(hw)
              /\ \A k \in MountedPorts :
                    PerformedOn(ports[k], Releases) = {}
        /\ (\E k \in MountedPorts :
               UnmountedInPhase4(hw', k) /\ ~UnmountedInPhase4(hw, k)) =>
              /\ pc = "par_unmount"
              /\ ~Verifying(hw')

C33_WitnessNoneMounted ==
    /\ StaggeredRunOver
    /\ MountedPorts = {}
    /\ mount_map[1].block_dev
    /\ Len(results) = 2
    /\ ~Verifying(hw)


\* The staggered loop has taken a block device for a port whose serial
\* number it had recorded.
AssignedToPort ==
    /\ call.fn = "bootloader_entry"
    /\ call.obs.path = "upload_parallel"
    /\ call.obs.sn
    /\ returned.kind = "entered"

\* C39: in staggered mode a block device whose USB serial number differs
\* from the serial number recorded for the port is not taken as that
\* port's block device, so it is neither mounted nor written for it.
C39_OnlyOwnBlockDevice ==
    AssignedToPort =>
        _get_block_device_serial(returned.block_dev, call.obs.own,
                                 call.obs.readable) # "other"

\* The entry loop of either path is in one of its waits, or has left one
\* with a new block device.
HoldsSnapshot ==
    /\ call.fn = "bootloader_entry"
    /\ \/ returned.kind = "entered"
       \/ /\ returned.kind = "entering"
          /\ returned.stage \in {"command", "touched"}

EntrySucceeded ==
    /\ call.fn = "bootloader_entry"
    /\ returned.kind = "entered"

\* C38: a wait of the entry loop compares the scan with the most recent
\* snapshot, the one of the start of the pass or of the 1200 baud touch in
\* trigger_bootloader and the one of the device's start or of the touch in
\* upload_parallel, and the entry succeeds only with a block device that
\* is not in that snapshot.
C38_NewAgainstLatestSnapshot ==
    /\ HoldsSnapshot => returned.pre = returned.seen
    /\ EntrySucceeded =>
          /\ returned.found # {}
          /\ returned.found \cap returned.seen = {}
          /\ returned.block_dev \in returned.found
          /\ returned.found \subseteq returned.current

\* trigger_bootloader succeeds on a retry although a block device was
\* already there when the retry began.
C38_Witness ==
    /\ EntrySucceeded
    /\ call.obs.path = "trigger_bootloader"
    /\ returned.attempt > 1
    /\ returned.current \cap returned.seen # {}

\* upload_parallel succeeds on a retry, after the touch of the first pass
\* took a new snapshot.
C38_WitnessStaggered ==
    /\ EntrySucceeded
    /\ call.obs.path = "upload_parallel"
    /\ returned.attempt > 1
    /\ returned.current \cap returned.seen # {}

\* The functions that wait for the hardware.
WaitFunctions ==
    {"bootloader_entry", "find_uf2_block_device", "verify_reboot",
     "_recover_usb_port"}

\* The function that was called has returned.
WaitOver ==
    /\ call.fn \in WaitFunctions
    /\ returned.kind \in {"returned", "entered", "not entered"}

\* A wait goes on only as long as its deadline allows, and is over either
\* with what it waited for or at its deadline.
WaitEndsAsObservedOrExpired ==
    /\ (call.fn \in WaitFunctions /\ returned.kind = "waiting") =>
          returned.now < returned.deadline + MaxSleep
    /\ (call.fn = "bootloader_entry" /\ returned.kind = "entering") =>
          returned.now < DriveTimeout + MaxSleep * DrivePoll
    /\ (call.fn = "verify_reboot" /\ returned.kind = "returned") =>
          \/ returned.drive_gone /\ returned.port_back
          \/ returned.now >= returned.deadline
    /\ (call.fn \in {"find_uf2_block_device", "_recover_usb_port"}
        /\ returned.kind = "returned") =>
          \/ returned.value # 0
          \/ returned.now >= returned.deadline
    /\ (call.fn = "bootloader_entry" /\ returned.kind = "entered") =>
          returned.now < DriveTimeout
    /\ (call.fn = "bootloader_entry" /\ returned.kind = "not entered"
        /\ returned.stage \in {"command", "touched"}) =>
          returned.now >= DriveTimeout

C36_WitnessScan ==
    /\ call.fn = "find_uf2_block_device"
    /\ returned.kind = "returned"
    /\ returned.value = 0
    /\ returned.now >= returned.deadline

\* A run of several devices that no command's own timeout ended has a
\* result for every port, whatever waits ran out on the way.
ExpiredWaitNotFatal ==
    (DevicesRunOver /\ Len(ports) > 1
     /\ failure # "Traceback: TimeoutExpired") =>
        /\ Len(results) = Len(ports)
        /\ dev.i = Len(ports)
\* ========================================================================
\* Properties of validate_safety (SpecValidate)
\* ========================================================================
Named(findings, name) == SelectSeq(findings, LAMBDA f : f.name = name)

\* The one finding of the given check in the assembled list.
TheFinding(name) == Named(safety.results, name)[1]

HasOne(name) == Len(Named(safety.results, name)) = 1

Validated == safety # Idle

\* The block's address range [start, end) shares an address with
\* [0, BOOTLOADER_REGION_END).
IntersectsBootloader(blk) ==
    blk[1] < blk[2] /\ blk[1] < BOOTLOADER_REGION_END /\ blk[2] > 0

SomeBlock(P(_)) == \E i \in 1..Len(hex_data.addresses) : P(hex_data.addresses[i])

StartsInBootloader(blk) == blk[1] < BOOTLOADER_REGION_END

\* C2: if a block's range intersects the bootloader region, the BOOTLOADER
\* REGION finding fails and SafetyError is raised, whatever the other
\* fields are; if no block starts below BOOTLOADER_REGION_END it passes.
C2_BootloaderRegion ==
    Validated =>
        /\ HasOne("BOOTLOADER REGION")
        /\ SomeBlock(IntersectsBootloader) =>
              /\ ~TheFinding("BOOTLOADER REGION").passed
              /\ safety.kind = "SafetyError"
        /\ ~SomeBlock(StartsInBootloader) =>
              TheFinding("BOOTLOADER REGION").passed

\* A bootloader block hidden behind a safe first block, with min_addr and
\* max_addr saying the image is safe.
C2_Witness ==
    /\ safety.kind = "SafetyError"
    /\ Len(hex_data.addresses) = 2
    /\ ~StartsInBootloader(hex_data.addresses[1])
    /\ IntersectsBootloader(hex_data.addresses[2])
    /\ hex_data.min_addr = APPLICATION_START
    /\ hex_data.max_addr = CONFIG_REGION_START

OtherCriticalThanMin ==
    hex_data.max_addr > FLASH_END \/ SomeBlock(StartsInBootloader)

OtherCriticalThanMax ==
    hex_data.min_addr < ABSOLUTE_MIN_ADDRESS \/ SomeBlock(StartsInBootloader)

\* C3: the minimum-address check is three-way: critical below
\* ABSOLUTE_MIN_ADDRESS, a failed warning from there up to
\* APPLICATION_START (which alone raises nothing), passing from
\* APPLICATION_START on.
C3_MinAddressThreeWay ==
    Validated =>
        /\ HasOne("BOOTLOADER PROTECTION")
        /\ hex_data.min_addr < ABSOLUTE_MIN_ADDRESS =>
              /\ TheFinding("BOOTLOADER PROTECTION") =
                     Finding("BOOTLOADER PROTECTION", FALSE, "CRITICAL")
              /\ safety.kind = "SafetyError"
        /\ (hex_data.min_addr >= ABSOLUTE_MIN_ADDRESS
            /\ hex_data.min_addr < APPLICATION_START) =>
              /\ TheFinding("BOOTLOADER PROTECTION") =
                     Finding("BOOTLOADER PROTECTION", FALSE, "WARNING")
              /\ ~OtherCriticalThanMin => safety.kind = "ok"
        /\ hex_data.min_addr >= APPLICATION_START =>
              TheFinding("BOOTLOADER PROTECTION").passed

\* An image starting exactly at the floor: a warning, returned normally.
C3_Witness ==
    /\ safety.kind = "ok"
    /\ hex_data.min_addr = ABSOLUTE_MIN_ADDRESS
    /\ ~TheFinding("BOOTLOADER PROTECTION").passed

\* C4: the maximum-address check is three-way: critical beyond FLASH_END,
\* a failed warning above CONFIG_REGION_START up to FLASH_END (which alone
\* raises nothing), passing up to CONFIG_REGION_START.
C4_MaxAddressThreeWay ==
    Validated =>
        /\ HasOne("FLASH BOUNDS")
        /\ hex_data.max_addr > FLASH_END =>
              /\ TheFinding("FLASH BOUNDS") =
                     Finding("FLASH BOUNDS", FALSE, "CRITICAL")
              /\ safety.kind = "SafetyError"
        /\ (hex_data.max_addr > CONFIG_REGION_START
            /\ hex_data.max_addr <= FLASH_END) =>
              /\ TheFinding("FLASH BOUNDS") =
                     Finding("FLASH BOUNDS", FALSE, "WARNING")
              /\ ~OtherCriticalThanMax => safety.kind = "ok"
        /\ hex_data.max_addr <= CONFIG_REGION_START =>
              TheFinding("FLASH BOUNDS").passed

\* An image ending exactly at the start of the config region passes the
\* check; one ending exactly at FLASH_END is a warning (second witness
\* state is the one named).
C4_Witness ==
    /\ safety.kind = "ok"
    /\ hex_data.max_addr = FLASH_END
    /\ ~TheFinding("FLASH BOUNDS").passed

AnyCriticalCondition ==
    \/ hex_data.min_addr < ABSOLUTE_MIN_ADDRESS
    \/ hex_data.max_addr > FLASH_END
    \/ SomeBlock(StartsInBootloader)

\* C5: SafetyError is raised exactly when the minimum address is below the
\* floor, the maximum address is beyond flash end, or a block starts in
\* the bootloader region; the size and segment findings are never critical.
C5_RaisesIffCritical ==
    Validated =>
        /\ (safety.kind = "SafetyError") = AnyCriticalCondition
        /\ (safety.kind = "ok") = ~AnyCriticalCondition
        /\ HasOne("APPLICATION SIZE")
        /\ TheFinding("APPLICATION SIZE").msg # "CRITICAL"
        /\ \A i \in 1..Len(safety.results) :
              safety.results[i].name = "SEGMENT ADDRESSES" =>
                  safety.results[i].msg # "CRITICAL"

\* The size check and the segment check both fail and the report is
\* returned.
C5_Witness ==
    /\ safety.kind = "ok"
    /\ ~TheFinding("APPLICATION SIZE").passed
    /\ Len(Named(safety.results, "SEGMENT ADDRESSES")) = 1
    /\ ~Named(safety.results, "SEGMENT ADDRESSES")[1].passed
    /\ safety.returned = safety.results

\* C7: when SafetyError is raised, all checks have been evaluated and the
\* caller receives the complete list of findings with the abort.
C7_FullReportDelivered ==
    safety.kind = "SafetyError" =>
        /\ Len(safety.results) >= 4
        /\ safety.returned = safety.results

\* The names of the five checks, in the order validate_safety runs them.
FiveChecks ==
    <<"BOOTLOADER PROTECTION", "FLASH BOUNDS", "APPLICATION SIZE",
      "BOOTLOADER REGION", "SEGMENT ADDRESSES">>

\* C35: every report that validate_safety returns holds one finding for
\* each of the five checks, in their order, with or without extended-address
\* records in the input.
C35_OneFindingPerCheck ==
    (Validated /\ safety.kind = "ok") =>
        /\ Len(safety.returned) = Len(FiveChecks)
        /\ \A k \in 1..Len(FiveChecks) : safety.returned[k].name = FiveChecks[k]

\* ========================================================================
\* Properties of parse_intel_hex (SpecParse)
\* ========================================================================
Parsed == parsed # Idle

IsRecord(r, types) == ~r.blank /\ r.record_type \in types

\* No end-of-file record stands before line k.
NoEofBefore(recs, k) == \A j \in 1..(k - 1) : ~IsRecord(recs[j], {1})

\* C8: in a file of well-formed records, flipping one bit of the checksum
\* byte of a record line (one not behind an end-of-file record, as in any
\* well-formed file) makes parsing fail with a HexValidationError naming
\* that line; no dictionary is returned.
C8_ChecksumBitFlip ==
    (Parsed /\ mutation.kind = "flip"
        /\ NoEofBefore(records, mutation.line)) =>
        /\ parsed.kind = "HexValidationError"
        /\ parsed.msg = "checksum"
        /\ parsed.line = mutation.line

\* The flipped record is the third line, behind a blank line.
C8_Witness ==
    /\ Parsed
    /\ mutation.kind = "flip"
    /\ mutation.line = 3
    /\ records[2].blank
    /\ IsRecord(records[1], {0})
    /\ parsed.kind = "HexValidationError"
    /\ parsed.line = 3

RECURSIVE BytesValue(_)
BytesValue(bytes) ==
    IF bytes = <<>> THEN 0
    ELSE BytesValue(SubSeq(bytes, 1, Len(bytes) - 1)) * 256 + bytes[Len(bytes)]

\* The value a type-02 or type-04 record sets the accumulator to.
AccumulatorSet(r) ==
    IF r.record_type = 2 THEN BytesValue(r.data) * 16
    ELSE BytesValue(r.data) * 65536

\* The accumulator in force at line i: set by the most recent preceding
\* type-02 or type-04 record, 0 if there is none.
Accumulator(recs, i) ==
    LET before == {j \in 1..(i - 1) : IsRecord(recs[j], {2, 4})}
    IN IF before = {} THEN 0
       ELSE AccumulatorSet(recs[CHOOSE j \in before : \A h \in before : h <= j])

BlockOf(recs, i) ==
    <<Accumulator(recs, i) + recs[i].address,
      Accumulator(recs, i) + recs[i].address + recs[i].byte_count>>

\* The blocks of the data records among the first n lines, in order.
RECURSIVE BlocksAmong(_, _)
BlocksAmong(recs, n) ==
    IF n = 0 THEN <<>>
    ELSE IF IsRecord(recs[n], {0})
    THEN Append(BlocksAmong(recs, n - 1), BlockOf(recs, n))
    ELSE BlocksAmong(recs, n - 1)

RECURSIVE SegmentsAmong(_, _)
SegmentsAmong(recs, n) ==
    IF n = 0 THEN <<>>
    ELSE IF IsRecord(recs[n], {2, 4})
    THEN Append(SegmentsAmong(recs, n - 1), AccumulatorSet(recs[n]))
    ELSE SegmentsAmong(recs, n - 1)

\* The number of lines up to the first end-of-file record (all lines if
\* there is none).
LinesRead(recs) ==
    LET eofs == {j \in 1..Len(recs) : IsRecord(recs[j], {1})}
    IN IF eofs = {} THEN Len(recs)
       ELSE CHOOSE j \in eofs : \A h \in eofs : j <= h

Undamaged == Parsed /\ mutation.kind = "none"

\* C9 as stated: every data record of the sequence yields its block, and
\* every type-02 / type-04 record its segments entry.
C9_EveryDataRecord ==
    Undamaged =>
        /\ parsed.kind = "ok"
        /\ parsed.addresses = BlocksAmong(records, Len(records))
        /\ parsed.segments = SegmentsAmong(records, Len(records))

\* C9 amended: every data record that precedes the first end-of-file record
\* yields the block [acc + address, acc + address + byte_count), acc being
\* set by the most recent preceding type-02 (segment << 4) or type-04
\* (upper << 16) record and 0 before any; each value set, up to the
\* end-of-file record, is appended to segments.
C9_DataRecordsBeforeEof ==
    Undamaged =>
        /\ parsed.kind = "ok"
        /\ parsed.addresses = BlocksAmong(records, LinesRead(records))
        /\ parsed.segments = SegmentsAmong(records, LinesRead(records))

\* A type-04 record, then a type-02 record, then a data record: the block
\* is placed by the type-02 record.
C9_Witness ==
    /\ Undamaged
    /\ Len(records) = 3
    /\ IsRecord(records[1], {4})
    /\ IsRecord(records[2], {2})
    /\ IsRecord(records[3], {0})
    /\ records[3].byte_count = 1
    /\ parsed.kind = "ok"
    /\ parsed.addresses = <<<<159744 + 28672, 159744 + 28673>>>>
    /\ parsed.segments = <<131072, 159744>>

\* C10: a line that lacks the marker, holds a non-hexadecimal character or
\* whose payload length differs from its byte count makes parsing fail
\* with a HexValidationError.
C10_MalformedLineAborts ==
    (Parsed /\ mutation.kind \in {"nomarker", "nonhex", "length"}
        /\ NoEofBefore(records, mutation.line)) =>
        parsed.kind = "HexValidationError"

\* The byte counts of the data records among the first n lines, summed.
RECURSIVE BytesAmong(_, _)
BytesAmong(recs, n) ==
    IF n = 0 THEN 0
    ELSE IF IsRecord(recs[n], {0})
    THEN BytesAmong(recs, n - 1) + recs[n].byte_count
    ELSE BytesAmong(recs, n - 1)

\* The smallest start and the largest end of a list of blocks, 0 for the
\* empty list.
SmallestStart(blocks) ==
    IF blocks = <<>> THEN 0
    ELSE CHOOSE a \in {blocks[k][1] : k \in 1..Len(blocks)} :
            \A k \in 1..Len(blocks) : a <= blocks[k][1]

LargestEnd(blocks) ==
    IF blocks = <<>> THEN 0
    ELSE CHOOSE b \in {blocks[k][2] : k \in 1..Len(blocks)} :
            \A k \in 1..Len(blocks) : b >= blocks[k][2]

\* C34: for every sequence of well-formed records the aggregates of the
\* result cover the data records before the first end-of-file record and
\* nothing else: min_addr is the smallest block start, max_addr the largest
\* block end, total_bytes the sum of the byte counts, and what stands
\* behind the end-of-file record adds no block, no segment and changes no
\* aggregate.
C34_AggregatesCoverRecordsBeforeEof ==
    Undamaged =>
        LET read == LinesRead(records)
            blocks == BlocksAmong(records, read)
        IN /\ parsed.kind = "ok"
           /\ parsed.min_addr = SmallestStart(blocks)
           /\ parsed.max_addr = LargestEnd(blocks)
           /\ parsed.total_bytes = BytesAmong(records, read)
           /\ Len(parsed.addresses) = Len(blocks)
           /\ Len(parsed.segments) = Len(SegmentsAmong(records, read))

\* Two data records before the end-of-file record, the second one lower
\* than the first: max_addr is the end of the first, min_addr the start of
\* the second.
C34_Witness ==
    /\ Undamaged
    /\ records = <<Rec(1, 28672, 0, <<170>>), Rec(2, 16, 0, <<1, 2>>),
                   Rec(0, 0, 1, <<>>)>>
    /\ parsed.kind = "ok"
    /\ parsed.min_addr = 16
    /\ parsed.max_addr = 28673
    /\ parsed.total_bytes = 3

\* A data record behind the end-of-file record leaves the aggregates as
\* the first record made them.
C34_WitnessAfterEof ==
    /\ Undamaged
    /\ records = <<Rec(1, 28672, 0, <<170>>), Rec(0, 0, 1, <<>>),
                   Rec(2, 16, 0, <<1, 2>>)>>
    /\ parsed.kind = "ok"
    /\ parsed.min_addr = 28672
    /\ parsed.max_addr = 28673
    /\ parsed.total_bytes = 1
    /\ Len(parsed.addresses) = 1

\* The image of the run has no data record before its end-of-file record.
NoDataBeforeEof ==
    /\ records # <<>>
    /\ mutation.kind = "none"
    /\ BlocksAmong(records, LinesRead(records)) = <<>>

\* C40: in a run that validates its image with the validator at hand, an
\* image without a data record before the end-of-file record parses to
\* min_addr 0, max_addr 0, total_bytes 0 and no block, validate_safety
\* raises SafetyError on it with the minimum-address check failed, and the
\* run gets no further: no conversion, no action on a device.
C40_EmptyImageIsBlocked ==
    (pc # "off" /\ Validates(args) /\ env.importable /\ NoDataBeforeEof) =>
        /\ pc \in {"start", "phase12", "done"}
        /\ conversion = "not run"
        /\ Performed(DeviceActs) = {}
        /\ results = <<>>
        /\ parsed # Idle =>
              /\ parsed.kind \in {"ok", "ValueError"}
              /\ parsed.kind = "ok" =>
                    /\ parsed.min_addr = 0
                    /\ parsed.max_addr = 0
                    /\ parsed.total_bytes = 0
                    /\ parsed.addresses = <<>>
                    /\ safety.kind = "SafetyError"
                    /\ ~safety.results[1].passed
                    /\ safety.results[1].msg = "CRITICAL"
                    /\ pc = "done"
                    /\ exit_status = 1

\* The end-of-file record alone was validated for "uf2_upload.py
\* /dev/ttyACM0": SafetyError, and the run is over with status 1.
C40_Witness ==
    /\ args = DefaultArgs
    /\ records = <<EofRecord>>
    /\ parsed # Idle
    /\ parsed.kind = "ok"
    /\ parsed.min_addr = 0
    /\ parsed.addresses = <<>>
    /\ safety.kind = "SafetyError"
    /\ pc = "done"
    /\ exit_status = 1
    /\ hw = {}

====
